---- MODULE Spec2Model ----
(***************************************************************************)
(* Verification model of the browser-automation agent:                     *)
(*   - cart assembly and ranking  (services/api/food_delivery_helpers.py)  *)
(*   - the workflow executor      (services/api/mcp_executor.py)           *)
(*   - the workflow result record (shared/schemas/execution.py)            *)
(*   - the navigation retry loop  (services/api/mcp_runtime.py)            *)
(* Each component has its own specification over its own variables; the    *)
(* variables of the other components are left unchanged.                   *)
(*                                                                         *)
(* Prices are whole currency units and scores are exact rationals rounded  *)
(* to hundredths; the binary floating point of the source is not modelled. *)
(***************************************************************************)
EXTENDS Integers, Sequences, FiniteSets, TLC

VARIABLES
    restaurant,     \* ExtractedRestaurant handed to find_valid_carts
    min_protein,    \* constraint: minimum total protein
    max_price,      \* constraint: exclusive price ceiling
    valid_carts,    \* list returned by find_valid_carts
    cartPhase,      \* "input" before the call, "done" after it
    candidates,     \* the CartCandidate objects handed to rank_carts
    rank_min,       \* min_protein of the last rank_carts call
    rank_max,       \* max_price of the last rank_carts call
    ranked,         \* list returned by the last rank_carts call
    firstResult,    \* per constraints: what the first call with them returned
    rankCalls,      \* number of rank_carts calls made
    wf_steps,       \* the step list handed to execute_workflow
    wf_i,           \* index of the next iteration of the step loop
    wf_broke,       \* the loop was left by "break"
    wf_result,      \* the WorkflowResult being built
    wf_executed,    \* step numbers passed to _execute_step, in call order
    wf_pc,          \* "loop" inside execute_workflow, "done" after return
    rt_browser,     \* PlaywrightRuntime._browser
    rt_context,     \* PlaywrightRuntime._context
    rt_page,        \* PlaywrightRuntime._page
    nav_calls,      \* navigate calls started on this runtime
    nav_attempt,    \* loop variable "attempt" of navigate
    nav_page,       \* local variable "page" of navigate
    nav_last_error, \* local variable "last_error" of navigate
    nav_pc,         \* position inside navigate
    nav_return,     \* what the last navigate call returned or raised
    nav_loads,      \* the page.goto calls of the current navigate call
    nav_created,    \* number of browser objects created so far
    fd_pc,          \* phase of FoodDeliveryExecutor.execute
    fd_min,         \* constraints.min_protein_grams
    fd_max,         \* constraints.max_price_usd
    fd_restaurants, \* restaurants returned by _extract_restaurants
    fd_debug,       \* self.debug: blocked_at_step and best_attempt
    fd_output,      \* what execute returned, <<>> until then
    cc_client,      \* module-level _mcp_client of mcp_client.py
    cc_runtime,     \* module-level _runtime of mcp_runtime.py
    cc_rt,          \* _page and _context of each runtime object
    cc_made,        \* number of page and context objects created so far
    cc_pc,          \* per run: idle, running or done
    cc_nav,         \* per run: attempts made in its navigate call in progress
    cc_ops,         \* per run: browser operations made
    cc_using,       \* per run: the page and context its last operation used
    cc_op,          \* the last browser operation, <<>> before the first
    ba_restaurants, \* restaurants handed to find_best_attempt
    ba_min,         \* its min_protein
    ba_max,         \* its max_price
    ba_result,      \* what it returned: <<attempt>>, or <<>> for None
    ba_called,      \* whether it has been called
    est_text,       \* the words of "item_name description", lowercased
    est_value,      \* <<estimate>> once estimate_protein_from_name ran
    est_before,     \* <<estimate>> of the text before a modifier was added
    it_raw,         \* menu items as _extract_menu_items returned them
    it_items,       \* the same item objects, as process_extracted_item left them
    it_pc,          \* raw, processed, raised or carts
    it_min,         \* constraints.min_protein_grams
    it_carts,       \* carts find_valid_carts built from the processed items
    pr_input,       \* the argument of parse_price: <<text>>, or <<>> for None
    pr_called,      \* whether parse_price has been called
    pr_result,      \* what it returned: <<price>>, or <<>> for None
    sc_carts,       \* two carts handed to score_cart
    sc_min,         \* min_protein
    sc_max,         \* max_price
    sc_scores,      \* <<score of the first, score of the second>>, <<>> before
    ip_step,        \* the WorkflowStep as execute_workflow got it
    ip_user_data,   \* the user_data map of the run
    ip_out,         \* <<step handed to _execute_step>>, <<>> before
    cx_context,     \* MCPExecutor._workflow_context
    cx_run,         \* execute_workflow calls started on this executor
    cx_i,           \* steps of the current run handed to _execute_step
    cx_pc,          \* "idle" between runs, "run" inside execute_workflow
    cx_last,        \* what the last _execute_step call did
    ts_selectors,   \* the selectors handed to try_selectors
    ts_action,      \* its action argument
    ts_outcomes,    \* what the client does with each selector when asked
    ts_return,      \* <<what try_selectors returned>>, <<>> before
    ff_step,        \* the fill_form step: fields, selector, auto_detect
    ff_last,        \* what _execute_step did with it, NoFill before
    pg_present,     \* selector groups that have an element on the loaded page
    pg_client,      \* the mcp_client the executor was built with
    pg_state,       \* what _detect_page_state returned, "" before
    pg_output,      \* <<output of execute>>, <<>> before
    ss_page,        \* whether PlaywrightRuntime._page is set
    ss_calls,       \* screenshot calls made on this runtime
    ss_timeout,     \* argument "timeout" of the last call, in milliseconds
    ss_shots,       \* the page.screenshot calls of the last call, in order
    ss_return,      \* what the last call returned or raised
    oi_client,      \* class of the mcp_client the executor was built with
    oi_pc,          \* position of the run: step0, step1, setup, scan, returned
    oi_navs,        \* URLs passed to client.navigate in this run, in order
    oi_debug,       \* self.debug: outbound_ip and ip_is_datacenter
    oi_check,       \* <<dict returned by the IP check>>, <<>> before
    oi_output,      \* <<output of execute>>, <<>> before
    sr_step,        \* the WorkflowStep handed to _execute_step
    sr_handler,     \* what its action handler did: success, failure or raise
    sr_result,      \* the StepResult _execute_step returned
    sr_calls,       \* _execute_step calls made
    bk_steps,       \* the steps handed to execute_workflow
    bk_blocked,     \* per step: whether the page shows a block when it runs
    bk_client,      \* class of the client the executor uses
    bk_i,           \* index of the next iteration of the step loop
    bk_results,     \* the StepResults recorded so far
    bk_pc,          \* "loop" inside execute_workflow, "done" after return
    dd_pages,       \* the restaurant pages visited: name text found and menu
    dd_restaurants, \* the ExtractedRestaurants built from them
    dd_ranked,      \* what rank_carts returned for their carts
    dd_pc,          \* pages, extracted or ranked
    eb_pc,          \* caller -> where it is inside ensure_browser
    eb_self,        \* the runtime's _playwright, _browser, _context, _page
    eb_started,     \* the browsers launched so far
    eb_got,         \* caller -> the page ensure_browser returned to it
    eb_stealth      \* config.stealth_mode with a stealth function available

cartVars == <<restaurant, min_protein, max_price, valid_carts, cartPhase>>
rankVars == <<candidates, rank_min, rank_max, ranked, firstResult, rankCalls>>
wfVars == <<wf_steps, wf_i, wf_broke, wf_result, wf_executed, wf_pc>>
fdVars == <<fd_pc, fd_min, fd_max, fd_restaurants, fd_debug, fd_output>>
ccVars == <<cc_client, cc_runtime, cc_rt, cc_made, cc_pc, cc_nav, cc_ops,
            cc_using, cc_op>>
baVars == <<ba_restaurants, ba_min, ba_max, ba_result, ba_called>>
estVars == <<est_text, est_value, est_before>>
itVars == <<it_raw, it_items, it_pc, it_min, it_carts>>
prVars == <<pr_input, pr_called, pr_result>>
scVars == <<sc_carts, sc_min, sc_max, sc_scores>>
ipVars == <<ip_step, ip_user_data, ip_out>>
cxVars == <<cx_context, cx_run, cx_i, cx_pc, cx_last>>
tsVars == <<ts_selectors, ts_action, ts_outcomes, ts_return>>
ffVars == <<ff_step, ff_last>>
pgVars == <<pg_present, pg_client, pg_state, pg_output>>
ssVars == <<ss_page, ss_calls, ss_timeout, ss_shots, ss_return>>
oiVars == <<oi_client, oi_pc, oi_navs, oi_debug, oi_check, oi_output>>
srVars == <<sr_step, sr_handler, sr_result, sr_calls>>
bkVars == <<bk_steps, bk_blocked, bk_client, bk_i, bk_results, bk_pc>>
ddVars == <<dd_pages, dd_restaurants, dd_ranked, dd_pc>>
ebVars == <<eb_pc, eb_self, eb_started, eb_got, eb_stealth>>
navVars == <<rt_browser, rt_context, rt_page, nav_calls, nav_attempt, nav_page,
             nav_last_error, nav_pc, nav_return, nav_loads, nav_created>>

\* Python's None for an Optional[int] field
None == -1

(***************************************************************************)
(* Bounds of the model                                                     *)
(***************************************************************************)
MaxItems == 4          \* menu items per restaurant
MaxCands == 4          \* candidates handed to rank_carts
MaxRankCalls == 2      \* rank_carts calls on the same candidate objects
MaxSteps == 3          \* steps of a workflow
MaxResults == 3        \* step results added to one WorkflowResult
MaxNavCalls == 2       \* navigate calls on one runtime
MaxRestaurants == 2    \* restaurants scanned in one food delivery run
MaxRunOps == 3         \* browser operations of one run among concurrent runs
MaxMenu == 3           \* menu items of a restaurant handed to find_best_attempt
MaxWords == 3          \* words of an item name with its description
MaxChars == 4          \* characters of a price text
MaxText == 2           \* pieces (characters or placeholder tokens) of a text
MaxRuns == 2           \* execute_workflow calls on one executor
MaxRunSteps == 2       \* steps of one such run
MaxUrls == 2           \* URLs of one extracted list
MaxSelectors == 3      \* candidate selectors of one try_selectors call
MaxFields == 3         \* entries of the fields map of a fill_form step
MaxShotCalls == 3      \* screenshot calls on one runtime
MaxScans == 2          \* restaurant pages visited in one food delivery run
MaxLargeMenu == 6      \* menu items of a restaurant with more items than a cart may hold
MaxStepCalls == 2      \* _execute_step calls of one executor
MaxBlockSteps == 3     \* steps of a workflow with detect_block steps
MaxPages == 3          \* restaurant pages whose carts are ranked together
MaxCallers == 2        \* browser operations in flight on one runtime

(***************************************************************************)
(* Generic helpers                                                         *)
(***************************************************************************)
Range(s) == {s[i] : i \in 1..Len(s)}

RECURSIVE SumSeq(_)
SumSeq(s) == IF s = <<>> THEN 0 ELSE Head(s) + SumSeq(Tail(s))

RECURSIVE FlattenSeq(_)
FlattenSeq(ss) == IF ss = <<>> THEN <<>> ELSE Head(ss) \o FlattenSeq(Tail(ss))

SeqsUpTo(S, n) == UNION {[1..k -> S] : k \in 0..n}

(***************************************************************************)
(* shared/schemas/food_delivery.py                                         *)
(***************************************************************************)
\* ExtractedMenuItem.protein_per_dollar as an exact fraction <<num, den>>:
\* protein/price when protein is truthy and price > 0, else 0.0
protein_per_dollar(item) ==
    IF item.protein_grams # None /\ item.protein_grams # 0 /\ item.price > 0
    THEN <<item.protein_grams, item.price>>
    ELSE <<0, 1>>

\* a < b for two non-negative fractions
FracLess(a, b) == a[1] * b[2] < b[1] * a[2]

\* ExtractedRestaurant.eligible_items
eligible_items(r) == SelectSeq(r.items, LAMBDA it : it.protein_eligible)

\* "item.protein_grams or 0"
ProteinOrZero(item) == IF item.protein_grams = None THEN 0 ELSE item.protein_grams

(***************************************************************************)
(* services/api/food_delivery_helpers.py : cart assembly                   *)
(***************************************************************************)
\* sorted(eligible_items, key=protein_per_dollar, reverse=True): a stable
\* sort, items of equal key keep their menu order.
RECURSIVE InsertByValue(_, _)
InsertByValue(x, s) ==
    IF s = <<>> THEN <<x>>
    ELSE IF FracLess(protein_per_dollar(Head(s)), protein_per_dollar(x))
         THEN <<x>> \o s
         ELSE <<Head(s)>> \o InsertByValue(x, Tail(s))

RECURSIVE SortByValue(_)
SortByValue(s) ==
    IF s = <<>> THEN <<>>
    ELSE InsertByValue(s[Len(s)], SortByValue(SubSeq(s, 1, Len(s) - 1)))

\* itertools.combinations: the k-element index tuples of lo..n in
\* lexicographic order
RECURSIVE CombosFrom(_, _, _)
CombosFrom(lo, n, k) ==
    IF k = 0 THEN << <<>> >>
    ELSE IF lo > n THEN <<>>
    ELSE LET with == CombosFrom(lo + 1, n, k - 1)
         IN  [i \in 1..Len(with) |-> <<lo>> \o with[i]] \o CombosFrom(lo + 1, n, k)

combinations(s, k) ==
    LET idx == CombosFrom(1, Len(s), k)
    IN  [i \in 1..Len(idx) |-> [j \in 1..k |-> s[idx[i][j]]]]

\* _create_cart_candidate
CartItemOf(item) ==
    [item_name      |-> item.item_name,
     price          |-> item.price,
     protein_grams  |-> ProteinOrZero(item),
     protein_source |-> item.protein_source]

create_cart_candidate(r, items) ==
    LET cart_items == [i \in 1..Len(items) |-> CartItemOf(items[i])]
    IN  [restaurant          |-> r.name,
         cart_items          |-> cart_items,
         total_price         |-> SumSeq([i \in 1..Len(cart_items) |-> cart_items[i].price]),
         total_protein_grams |-> SumSeq([i \in 1..Len(cart_items) |-> cart_items[i].protein_grams]),
         includes_estimates  |-> \E i \in 1..Len(cart_items) :
                                    cart_items[i].protein_source = "estimated",
         eta_minutes         |-> r.eta_minutes,
         score               |-> 0]

\* the single-item loop of find_valid_carts (lines 280-287)
SingleItemValid(item, minp, maxp) ==
    item.protein_grams >= minp /\ item.price < maxp

\* variant of _try_combination with an inclusive price ceiling
try_combination_inclusive(r, items, minp, maxp) ==
    LET total_price   == SumSeq([i \in 1..Len(items) |-> items[i].price])
        total_protein == SumSeq([i \in 1..Len(items) |-> ProteinOrZero(items[i])])
    IN  IF total_protein >= minp /\ total_price <= maxp
        THEN <<create_cart_candidate(r, items)>>
        ELSE <<>>

\* _try_combination: <<cart>> when the combination is valid, <<>> for None
try_combination(r, items, minp, maxp) ==
    LET total_price   == SumSeq([i \in 1..Len(items) |-> items[i].price])
        total_protein == SumSeq([i \in 1..Len(items) |-> ProteinOrZero(items[i])])
    IN  IF total_protein >= minp /\ total_price < maxp
        THEN <<create_cart_candidate(r, items)>>
        ELSE <<>>

\* _greedy_cart_assembly: state of the loop is <<cart_items, protein, price>>;
\* returns <<cart>> or <<>> for None
RECURSIVE GreedyLoop(_, _, _, _, _, _, _, _)
GreedyLoop(r, rest, cart_items, current_protein, current_price, minp, maxp, max_items) ==
    IF rest = <<>> THEN <<>>
    ELSE IF Len(cart_items) >= max_items THEN <<>>
    ELSE LET item == Head(rest)
         IN  IF current_price + item.price < maxp
             THEN IF current_protein + ProteinOrZero(item) >= minp
                  THEN <<create_cart_candidate(r, Append(cart_items, item))>>
                  ELSE GreedyLoop(r, Tail(rest), Append(cart_items, item),
                                  current_protein + ProteinOrZero(item),
                                  current_price + item.price, minp, maxp, max_items)
             ELSE GreedyLoop(r, Tail(rest), cart_items, current_protein,
                             current_price, minp, maxp, max_items)

greedy_cart_assembly(r, sorted_items, minp, maxp, max_items) ==
    GreedyLoop(r, sorted_items, <<>>, 0, 0, minp, maxp, max_items)

\* variant with room for one more item
max_items_per_cart_six == 5 + 1

\* default of the max_items_per_cart parameter
max_items_per_cart == 5

\* variant that appends the greedy cart without looking for a duplicate
GreedyAddition_unchecked(carts, greedy) == greedy

\* "greedy_cart and greedy_cart not in valid_carts"
GreedyAddition(carts, greedy) ==
    IF greedy # <<>> /\ greedy[1] \notin Range(carts) THEN greedy ELSE <<>>

find_valid_carts(r, minp, maxp) ==
    LET eligible == eligible_items(r)
        sorted_items == SortByValue(eligible)
        singles == FlattenSeq([i \in 1..Len(sorted_items) |->
                      IF SingleItemValid(sorted_items[i], minp, maxp)
                      THEN <<create_cart_candidate(r, <<sorted_items[i]>>)>>
                      ELSE <<>>])
        c2    == combinations(sorted_items, 2)
        pairs == FlattenSeq([i \in 1..Len(c2) |-> try_combination(r, c2[i], minp, maxp)])
        c3    == combinations(sorted_items, 3)
        trips == FlattenSeq([i \in 1..Len(c3) |-> try_combination(r, c3[i], minp, maxp)])
        enumerated == singles \o pairs \o trips
        greedy == greedy_cart_assembly(r, sorted_items, minp, maxp, max_items_per_cart)
    IN  IF eligible = <<>> THEN <<>>
        ELSE enumerated \o GreedyAddition(enumerated, greedy)

(***************************************************************************)
(* services/api/food_delivery_helpers.py : scoring and ranking             *)
(***************************************************************************)
\* round-half-even of the non-negative fraction a/b to an integer
RoundHalfEven(a, b) ==
    LET f == a \div b
        twice == 2 * (a % b)
    IN  IF twice > b THEN f + 1
        ELSE IF twice < b THEN f
        ELSE IF f % 2 = 0 THEN f ELSE f + 1

\* CartCandidate.item_count
item_count(cart) == Len(cart.cart_items)

\* CartCandidate.actual_protein_ratio as a fraction <<num, den>>
actual_protein_ratio(cart) ==
    LET actual == SumSeq([i \in 1..Len(cart.cart_items) |->
                     IF cart.cart_items[i].protein_source = "actual"
                     THEN cart.cart_items[i].protein_grams ELSE 0])
    IN  IF cart.total_protein_grams > 0
        THEN <<actual, cart.total_protein_grams>>
        ELSE <<0, 1>>

\* score_cart, in hundredths: round(base_score, 2) * 100.  The score is the
\* fraction N/D built from the four weighted terms, the 0.85 factor for
\* estimated protein and the 2-point penalty per item beyond two.
score_cart(cart, minp, maxp) ==
    LET P   == cart.total_protein_grams
        c   == cart.total_price
        eta == cart.eta_minutes
        cc  == IF c > 0 THEN c ELSE 1
        ee  == IF eta # None /\ eta > 0 THEN eta ELSE 1
        \* min(protein_per_dollar / 5, 1.0) * 20  =  valueNum / cc
        valueNum == IF c > 0 THEN (IF P >= 5 * c THEN 20 * c ELSE 4 * P) ELSE 0
        \* min(1000 / eta, 10), or 5 when the ETA is unknown  =  speedNum / ee
        speedNum == IF eta # None /\ eta > 0
                    THEN (IF eta <= 100 THEN 10 * eta ELSE 1000)
                    ELSE 5
        D0 == minp * maxp * cc * ee
        N0 == 40 * P * maxp * cc * ee
              + 30 * (maxp - c) * minp * cc * ee
              + valueNum * minp * maxp * ee
              + speedNum * minp * maxp * cc
        N1 == IF cart.includes_estimates THEN 17 * N0 ELSE N0
        D1 == IF cart.includes_estimates THEN 20 * D0 ELSE D0
        N2 == IF item_count(cart) > 2 THEN N1 - (item_count(cart) - 2) * 2 * D1 ELSE N1
    IN  100 * (N2 \div D1) + RoundHalfEven(100 * (N2 % D1), D1)

\* the sort key of rank_carts (lines 471-478)
SortKey(c) ==
    [score   |-> c.score,
     ratio   |-> actual_protein_ratio(c),
     protein |-> c.total_protein_grams,
     price   |-> 0 - c.total_price,
     eta     |-> 0 - (IF c.eta_minutes = None \/ c.eta_minutes = 0 THEN 999 ELSE c.eta_minutes),
     items   |-> 0 - item_count(c)]

\* tuple comparison a < b, component by component
KeyLess(a, b) ==
    \/ a.score < b.score
    \/ /\ a.score = b.score
       /\ \/ FracLess(a.ratio, b.ratio)
          \/ /\ ~FracLess(b.ratio, a.ratio)
             /\ \/ a.protein < b.protein
                \/ /\ a.protein = b.protein
                   /\ \/ a.price < b.price
                      \/ /\ a.price = b.price
                         /\ \/ a.eta < b.eta
                            \/ /\ a.eta = b.eta
                               /\ a.items < b.items

\* sorted(carts, key=..., reverse=True): stable, descending
RECURSIVE InsertByKey(_, _)
InsertByKey(x, s) ==
    IF s = <<>> THEN <<x>>
    ELSE IF KeyLess(SortKey(Head(s)), SortKey(x))
         THEN <<x>> \o s
         ELSE <<Head(s)>> \o InsertByKey(x, Tail(s))

RECURSIVE SortByKey(_)
SortByKey(s) ==
    IF s = <<>> THEN <<>>
    ELSE InsertByKey(s[Len(s)], SortByKey(SubSeq(s, 1, Len(s) - 1)))

\* the deduplication loop (lines 483-488): the first cart of each restaurant
RECURSIVE DedupLoop(_, _)
DedupLoop(s, seen_restaurants) ==
    IF s = <<>> THEN <<>>
    ELSE IF Head(s).restaurant \notin seen_restaurants
         THEN <<Head(s)>> \o DedupLoop(Tail(s), seen_restaurants \cup {Head(s).restaurant})
         ELSE DedupLoop(Tail(s), seen_restaurants)

\* variant without deduplication
unique_carts_all(sorted_carts) == sorted_carts

unique_carts(sorted_carts) == DedupLoop(sorted_carts, {})

\* unique_carts[:top_n]
TakeTop(s, n) == SubSeq(s, 1, IF Len(s) < n THEN Len(s) ELSE n)

\* default of the top_n parameter
top_n == 3

\* _generate_cart_reason: the prefix chosen by rank and the list of reasons,
\* each reason with the numbers it prints
generate_cart_reason(cart, rank, minp, maxp) ==
    LET protein_surplus == cart.total_protein_grams - minp
        price_savings   == maxp - cart.total_price
        r1 == IF protein_surplus > 20
              THEN << <<"protein over target", cart.total_protein_grams, protein_surplus>> >>
              ELSE << <<"protein", cart.total_protein_grams, 0>> >>
        r2 == IF price_savings > 5
              THEN << <<"price under budget", cart.total_price, price_savings>> >>
              ELSE << <<"price", cart.total_price, 0>> >>
        r3 == IF cart.total_price > 0 /\ cart.total_protein_grams > 4 * cart.total_price
              THEN << <<"excellent value",
                        RoundHalfEven(10 * cart.total_protein_grams, cart.total_price), 0>> >>
              ELSE <<>>
        r4 == IF cart.eta_minutes # None /\ cart.eta_minutes # 0 /\ cart.eta_minutes < 30
              THEN << <<"fast delivery", cart.eta_minutes, 0>> >>
              ELSE <<>>
        r5 == IF cart.includes_estimates
              THEN << <<"some nutrition estimated", 0, 0>> >>
              ELSE <<>>
        prefix == IF rank = 1 THEN "Best overall"
                  ELSE IF rank = 2 THEN "Runner-up" ELSE "Alternative"
    IN  [prefix |-> prefix, reasons |-> r1 \o r2 \o r3 \o r4 \o r5]

\* variant of the scoring loop that adds to the score already stored
ScoreAll_accumulate(carts, minp, maxp) ==
    [i \in 1..Len(carts) |->
        [carts[i] EXCEPT !.score = carts[i].score + score_cart(carts[i], minp, maxp)]]

\* the scoring loop (lines 465-466) writes the score into every candidate
ScoreAll(carts, minp, maxp) ==
    [i \in 1..Len(carts) |-> [carts[i] EXCEPT !.score = score_cart(carts[i], minp, maxp)]]

RankedCartResult(cart, i, minp, maxp) ==
    [rank                |-> i,
     restaurant          |-> cart.restaurant,
     cart_items          |-> cart.cart_items,
     total_price         |-> cart.total_price,
     total_protein_grams |-> cart.total_protein_grams,
     includes_estimates  |-> cart.includes_estimates,
     eta_minutes         |-> cart.eta_minutes,
     score               |-> cart.score,
     reason              |-> generate_cart_reason(cart, i, minp, maxp)]

\* variant that takes the top n before it removes a restaurant's other carts
rank_carts_truncate_first(scored, minp, maxp, n) ==
    LET top_carts == unique_carts(TakeTop(SortByKey(scored), n))
    IN  [i \in 1..Len(top_carts) |-> RankedCartResult(top_carts[i], i, minp, maxp)]

\* rank_carts on already scored candidates
rank_carts(scored, minp, maxp, n) ==
    LET top_carts == TakeTop(unique_carts(SortByKey(scored)), n)
    IN  [i \in 1..Len(top_carts) |-> RankedCartResult(top_carts[i], i, minp, maxp)]

(***************************************************************************)
(* Cart assembly: inputs and the call                                      *)
(***************************************************************************)
\* Menu items as process_extracted_item leaves them (lines 150-171): an item
\* is eligible exactly when its protein value is known.
MenuItem(name, price, protein, source) ==
    [item_name |-> name, price |-> price, protein_grams |-> protein,
     protein_source |-> source, protein_eligible |-> (protein # None)]

ItemKinds ==
    {MenuItem("free1", 0, 1, "actual"),
     MenuItem("cheap1", 1, 1, "actual"),
     MenuItem("cheap2", 1, 2, "actual"),
     MenuItem("dear2", 2, 2, "actual"),
     MenuItem("guess", 1, 1, "estimated"),
     MenuItem("fries", 1, None, "none")}

MinProteinChoices == {2, 4}
MaxPriceChoices == {3, 6}

CartInit ==
    /\ restaurant \in [name : {"R1"}, eta_minutes : {30},
                       items : SeqsUpTo(ItemKinds, MaxItems)]
    /\ min_protein \in MinProteinChoices
    /\ max_price \in MaxPriceChoices
    /\ valid_carts = <<>>
    /\ cartPhase = "input"

CartIdle ==
    /\ restaurant = [name |-> "R1", eta_minutes |-> 30, items |-> <<>>]
    /\ min_protein = 2
    /\ max_price = 3
    /\ valid_carts = <<>>
    /\ cartPhase = "idle"

FindValidCartsCall ==
    /\ cartPhase = "input"
    /\ valid_carts' = find_valid_carts(restaurant, min_protein, max_price)
    /\ cartPhase' = "done"
    /\ UNCHANGED <<restaurant, min_protein, max_price>>

(***************************************************************************)
(* Ranking: inputs and the call                                            *)
(***************************************************************************)
RankRestaurants ==
    {[name |-> "Ra", eta_minutes |-> 20, items |-> <<>>],
     [name |-> "Rb", eta_minutes |-> None, items |-> <<>>],
     [name |-> "Rc", eta_minutes |-> 125, items |-> <<>>],
     [name |-> "Rd", eta_minutes |-> 20, items |-> <<>>]}

CartShapes ==
    {<<MenuItem("cheap2", 1, 2, "actual"), MenuItem("cheap2", 1, 2, "actual")>>,
     <<MenuItem("cheap1", 1, 1, "actual"), MenuItem("guess", 1, 1, "estimated"),
       MenuItem("dear2", 2, 2, "actual")>>}

\* candidates as _create_cart_candidate builds them
CandidateKinds == {create_cart_candidate(r, sh) : r \in RankRestaurants, sh \in CartShapes}

RankConstraintChoices == {<<2, 6>>, <<4, 6>>}

Unset == [set |-> FALSE, res |-> <<>>]

\* the carts handed to rank_carts are distinct carts
DistinctCarts(carts) == \A i, j \in 1..Len(carts) : i # j => carts[i] # carts[j]

RankInit ==
    /\ candidates \in {carts \in SeqsUpTo(CandidateKinds, MaxCands) : DistinctCarts(carts)}
    /\ rank_min = 2
    /\ rank_max = 6
    /\ ranked = <<>>
    /\ firstResult = [a \in RankConstraintChoices |-> Unset]
    /\ rankCalls = 0

RankIdle ==
    /\ candidates = <<>>
    /\ rank_min = 2
    /\ rank_max = 6
    /\ ranked = <<>>
    /\ firstResult = [a \in RankConstraintChoices |-> Unset]
    /\ rankCalls = 0

\* restaurants whose parsed ETA is 0, 136 and 20 minutes
\* (ExtractedRestaurant.eta_minutes: ge=0, le=180)
TieRestaurants ==
    {[name |-> "Te", eta_minutes |-> 0, items |-> <<>>],
     [name |-> "Tf", eta_minutes |-> 136, items |-> <<>>],
     [name |-> "Tg", eta_minutes |-> 20, items |-> <<>>]}

\* two carts of 4 g protein for 3 dollars, half of it estimated
TieShapes ==
    {<<MenuItem("guess2", 1, 2, "estimated"), MenuItem("dear2", 2, 2, "actual")>>,
     <<MenuItem("guess2", 1, 2, "estimated"), MenuItem("cheap1", 1, 1, "actual"),
       MenuItem("cheap1", 1, 1, "actual")>>}

TieCandidateKinds == {create_cart_candidate(r, sh) : r \in TieRestaurants, sh \in TieShapes}

TieInit ==
    /\ candidates \in {carts \in SeqsUpTo(TieCandidateKinds, MaxCands) : DistinctCarts(carts)}
    /\ rank_min = 2
    /\ rank_max = 6
    /\ ranked = <<>>
    /\ firstResult = [a \in RankConstraintChoices |-> Unset]
    /\ rankCalls = 0

\* one call rank_carts(candidates, minp, maxp): it stores the scores in the
\* candidate objects and returns the ranked results
RankCartsCall ==
    /\ rankCalls < MaxRankCalls
    /\ \E a \in RankConstraintChoices :
          LET scored == ScoreAll(candidates, a[1], a[2])
              res    == rank_carts(scored, a[1], a[2], top_n)
          IN  /\ candidates' = scored
              /\ rank_min' = a[1]
              /\ rank_max' = a[2]
              /\ ranked' = res
              /\ firstResult' = IF firstResult[a].set THEN firstResult
                                ELSE [firstResult EXCEPT ![a] = [set |-> TRUE, res |-> res]]
    /\ rankCalls' = rankCalls + 1

(***************************************************************************)
(* services/api/food_delivery_helpers.py : protein estimation              *)
(***************************************************************************)
\* A text is the sequence of the words of f"{item_name} {description}" in
\* lower case.  A pattern is a list of alternatives, an alternative a list of
\* words joined by \s+; "eggs?" is the alternative "egg", since re.search
\* finds a pattern anywhere in the text.
PROTEIN_KEYWORDS ==
    <<[alts |-> <<<<"grilled", "chicken">>, <<"chicken", "breast">>>>, grams |-> 35],
      [alts |-> <<<<"double", "chicken">>>>, grams |-> 50],
      [alts |-> <<<<"steak">>, <<"ribeye">>, <<"sirloin">>, <<"filet">>>>, grams |-> 30],
      [alts |-> <<<<"salmon">>, <<"tuna">>>>, grams |-> 25],
      [alts |-> <<<<"ground", "beef">>, <<"beef", "patty">>>>, grams |-> 25],
      [alts |-> <<<<"chicken">>>>, grams |-> 25],
      [alts |-> <<<<"beef">>, <<"burger">>>>, grams |-> 22],
      [alts |-> <<<<"fish">>, <<"tilapia">>, <<"cod">>, <<"halibut">>>>, grams |-> 22],
      [alts |-> <<<<"shrimp">>, <<"prawns">>>>, grams |-> 20],
      [alts |-> <<<<"pork">>, <<"carnitas">>>>, grams |-> 22],
      [alts |-> <<<<"lamb">>>>, grams |-> 25],
      [alts |-> <<<<"turkey">>>>, grams |-> 25],
      [alts |-> <<<<"tofu">>>>, grams |-> 15],
      [alts |-> <<<<"tempeh">>>>, grams |-> 18],
      [alts |-> <<<<"egg">>, <<"egg", "white">>>>, grams |-> 6],
      [alts |-> <<<<"black", "beans">>, <<"kidney", "beans">>>>, grams |-> 8],
      [alts |-> <<<<"lentils">>>>, grams |-> 9],
      [alts |-> <<<<"chickpeas">>, <<"hummus">>>>, grams |-> 7],
      [alts |-> <<<<"quinoa">>>>, grams |-> 8],
      [alts |-> <<<<"edamame">>>>, grams |-> 11],
      [alts |-> <<<<"greek", "yogurt">>>>, grams |-> 15],
      [alts |-> <<<<"cottage", "cheese">>>>, grams |-> 12],
      [alts |-> <<<<"protein", "bowl">>>>, grams |-> 30],
      [alts |-> <<<<"power", "bowl">>>>, grams |-> 28],
      [alts |-> <<<<"fitness", "bowl">>>>, grams |-> 28]>>

PROTEIN_MODIFIERS ==
    <<[alts |-> <<<<"double">>, <<"2x">>>>, bonus |-> 15],
      [alts |-> <<<<"triple">>, <<"3x">>>>, bonus |-> 30],
      [alts |-> <<<<"extra", "chicken">>, <<"extra", "protein">>, <<"extra", "meat">>>>, bonus |-> 12],
      [alts |-> <<<<"large">>, <<"grande">>>>, bonus |-> 5],
      [alts |-> <<<<"add", "chicken">>, <<"add", "protein">>>>, bonus |-> 12],
      [alts |-> <<<<"with", "chicken">>, <<"with", "steak">>, <<"with", "beef">>, <<"with", "extra", "chicken">>, <<"with", "extra", "steak">>, <<"with", "extra", "beef">>>>, bonus |-> 15]>>

MAX_SINGLE_ITEM_PROTEIN == 60

\* pattern words that begin a longer word of the vocabulary
ProperPrefixes == {<<"egg", "eggplant">>}

\* word w ends where token t ends, begins where it begins, lies within it
EndsWith(t, w) == w = t
StartsWith(t, w) == w = t \/ <<w, t>> \in ProperPrefixes
Contains(t, w) == EndsWith(t, w) \/ StartsWith(t, w)

\* the alternative matches the text from word p on
MatchAt(alt, text, p) ==
    /\ p + Len(alt) - 1 <= Len(text)
    /\ \A k \in 1..Len(alt) :
          LET t == text[p + k - 1]
          IN  IF Len(alt) = 1 THEN Contains(t, alt[k])
              ELSE IF k = 1 THEN EndsWith(t, alt[k])
              ELSE IF k = Len(alt) THEN StartsWith(t, alt[k])
              ELSE t = alt[k]

\* re.search(pattern, text, re.IGNORECASE)
re_search(pattern, text) ==
    \E a \in 1..Len(pattern) : \E p \in 1..Len(text) : MatchAt(pattern[a], text, p)

\* the keyword loop (lines 105-110): the highest grams of a matching pattern
RECURSIVE BaseProteinLoop(_, _, _)
BaseProteinLoop(keywords, text, base_protein) ==
    IF keywords = <<>> THEN base_protein
    ELSE BaseProteinLoop(Tail(keywords), text,
             IF re_search(Head(keywords).alts, text) /\ Head(keywords).grams > base_protein
             THEN Head(keywords).grams ELSE base_protein)

\* the modifier loop (lines 117-120): the bonuses of the matching modifiers
RECURSIVE ModifierBonusLoop(_, _, _)
ModifierBonusLoop(modifiers, text, modifier_bonus) ==
    IF modifiers = <<>> THEN modifier_bonus
    ELSE ModifierBonusLoop(Tail(modifiers), text,
             IF re_search(Head(modifiers).alts, text)
             THEN modifier_bonus + Head(modifiers).bonus ELSE modifier_bonus)

\* the outcome of a call that raised TypeError
TypeError == -2

\* len(matched_keywords) after the keyword loop
MatchedKeywordCount(text) ==
    Cardinality({j \in 1..Len(PROTEIN_KEYWORDS) : re_search(PROTEIN_KEYWORDS[j].alts, text)})

\* estimate_protein_from_name: the estimated grams, None when no keyword
\* matches.  The confidence it also returns is left out, but not how it is
\* found (lines 123-130): with one matched keyword and no bonus the generator
\* of the elif unpacks each keyword tuple into "_, _, conf", which leaves the
\* grams in "_", and re.search(_, text) raises TypeError at the first keyword.
estimate_protein_from_name(text) ==
    LET base_protein == BaseProteinLoop(PROTEIN_KEYWORDS, text, 0)
        modifier_bonus == ModifierBonusLoop(PROTEIN_MODIFIERS, text, 0)
        total == base_protein + modifier_bonus
    IN  IF base_protein = 0 THEN None
        ELSE IF MatchedKeywordCount(text) > 1 \/ modifier_bonus > 0
        THEN (IF total < MAX_SINGLE_ITEM_PROTEIN THEN total ELSE MAX_SINGLE_ITEM_PROTEIN)
        ELSE TypeError

Vocabulary ==
    {"chicken", "grilled", "breast", "double", "large", "extra", "tofu",
     "eggplant", "bowl"}

ModifierWords == {"double", "large", "extra"}

EstInit ==
    /\ est_text \in SeqsUpTo(Vocabulary, MaxWords)
    /\ est_value = <<>>
    /\ est_before = <<>>

EstIdle ==
    /\ est_text = <<>>
    /\ est_value = <<>>
    /\ est_before = <<>>

\* one call of estimate_protein_from_name on the text
EstimateCall ==
    /\ est_value = <<>>
    /\ est_value' = <<estimate_protein_from_name(est_text)>>
    /\ UNCHANGED <<est_text, est_before>>

\* the same item with a modifier word put in front of its name or after its
\* description, estimated again
EstimateWithModifier ==
    /\ est_value # <<>>
    /\ est_before = <<>>
    /\ \E m \in ModifierWords, front \in BOOLEAN :
          LET text == IF front THEN <<m>> \o est_text ELSE Append(est_text, m)
          IN  /\ est_text' = text
              /\ est_value' = <<estimate_protein_from_name(text)>>
    /\ est_before' = est_value

(***************************************************************************)
(* services/api/food_delivery_helpers.py : process_extracted_item          *)
(***************************************************************************)
\* variant that marks every item eligible
process_extracted_item_all_eligible(item) ==
    IF item.protein_grams # None
    THEN <<[item EXCEPT !.protein_source = "actual", !.protein_eligible = TRUE]>>
    ELSE LET estimated == estimate_protein_from_name(item.item_name)
         IN  IF estimated = TypeError THEN <<>>
             ELSE IF estimated # None
             THEN <<[item EXCEPT !.protein_grams = estimated,
                                 !.protein_source = "estimated",
                                 !.protein_eligible = TRUE]>>
             ELSE <<[item EXCEPT !.protein_source = "none", !.protein_eligible = TRUE]>>

\* process_extracted_item: <<the item as the call left it>>, or <<>> when the
\* estimator raised and the item stayed as it was; item_name holds the words
\* of the name and the description
process_extracted_item(item) ==
    IF item.protein_grams # None
    THEN <<[item EXCEPT !.protein_source = "actual", !.protein_eligible = TRUE]>>
    ELSE LET estimated == estimate_protein_from_name(item.item_name)
         IN  IF estimated = TypeError THEN <<>>
             ELSE IF estimated # None
             THEN <<[item EXCEPT !.protein_grams = estimated,
                                 !.protein_source = "estimated",
                                 !.protein_eligible = TRUE]>>
             ELSE <<[item EXCEPT !.protein_source = "none", !.protein_eligible = FALSE]>>

\* [process_extracted_item(item) for item in items] (executor line 874): the
\* items are processed in list order up to the first call that raises
RECURSIVE ProcessItems(_, _)
ProcessItems(done, rest) ==
    IF rest = <<>> THEN [items |-> done, raised |-> FALSE]
    ELSE LET processed == process_extracted_item(Head(rest))
         IN  IF processed = <<>> THEN [items |-> done \o rest, raised |-> TRUE]
             ELSE ProcessItems(Append(done, processed[1]), Tail(rest))

\* ExtractedMenuItem(...) as _extract_menu_items builds it: protein from the
\* page or None, protein_source and protein_eligible at their defaults
RawItem(words, price, protein) ==
    [item_name |-> words, price |-> price, protein_grams |-> protein,
     protein_source |-> "none", protein_eligible |-> FALSE]

RawItemKinds ==
    {RawItem(<<"fries">>, 1, None),
     RawItem(<<"fries">>, 1, 2),
     RawItem(<<"tofu">>, 1, 0),
     RawItem(<<"chicken">>, 1, None),
     RawItem(<<"grilled", "chicken">>, 1, None)}

ItemInit ==
    /\ it_raw \in SeqsUpTo(RawItemKinds, MaxItems)
    /\ it_items = it_raw
    /\ it_pc = "raw"
    /\ it_min \in {2, 36}
    /\ it_carts = <<>>

ItemIdle ==
    /\ it_raw = <<>>
    /\ it_items = <<>>
    /\ it_pc = "idle"
    /\ it_min = 2
    /\ it_carts = <<>>

\* the items of one restaurant are processed (executor line 874)
ProcessExtractedItems ==
    /\ it_pc = "raw"
    /\ LET out == ProcessItems(<<>>, it_items)
       IN  /\ it_items' = out.items
           /\ it_pc' = IF out.raised THEN "raised" ELSE "processed"
    /\ UNCHANGED <<it_raw, it_min, it_carts>>

\* the restaurant built from the processed items goes through
\* find_valid_carts (executor lines 876-881, helpers lines 577-589)
AssembleCarts ==
    /\ it_pc = "processed"
    /\ it_carts' = find_valid_carts([name |-> "Ra", eta_minutes |-> 20, items |-> it_items],
                                    it_min, 4)
    /\ it_pc' = "carts"
    /\ UNCHANGED <<it_raw, it_items, it_min>>

(***************************************************************************)
(* services/api/food_delivery_helpers.py : parse_price                     *)
(***************************************************************************)
\* A text is the sequence of its characters; a price is the fraction
\* [num, den] with den a power of ten.
DigitValue ==
    "0" :> 0 @@ "1" :> 1 @@ "2" :> 2 @@ "3" :> 3 @@ "4" :> 4 @@
    "5" :> 5 @@ "6" :> 6 @@ "7" :> 7 @@ "8" :> 8 @@ "9" :> 9

Digits == DOMAIN DigitValue

\* re.sub(r'[^\d.,]', '', price_text.strip())
CleanPrice(text) == SelectSeq(text, LAMBDA c : c \in Digits \cup {".", ","})

\* str.replace(old, new) for single characters, new = "" removes
ReplaceChar(text, old, new) ==
    IF new = "" THEN SelectSeq(text, LAMBDA c : c # old)
    ELSE [i \in 1..Len(text) |-> IF text[i] = old THEN new ELSE text[i]]

HasChar(text, ch) == \E i \in 1..Len(text) : text[i] = ch

\* float(cleaned) for a string of digits and dots, read from the left:
\* <<price>>, or <<>> for ValueError (no digit, or a second dot)
RECURSIVE FloatScan(_, _, _, _, _)
FloatScan(rest, num, den, seen_dot, seen_digit) ==
    IF rest = <<>>
    THEN (IF seen_digit THEN <<[num |-> num, den |-> den]>> ELSE <<>>)
    ELSE IF Head(rest) = "."
         THEN (IF seen_dot THEN <<>>
               ELSE FloatScan(Tail(rest), num, den, TRUE, seen_digit))
         ELSE FloatScan(Tail(rest), 10 * num + DigitValue[Head(rest)],
                        IF seen_dot THEN 10 * den ELSE den, seen_dot, TRUE)

float(cleaned) == FloatScan(cleaned, 0, 1, FALSE, FALSE)

\* variant that takes every comma for a thousand separator
CommaRule_always_thousands(cleaned) == ReplaceChar(cleaned, ",", "")

\* lines 197-202: a comma is the decimal point when there is no dot, a
\* thousand separator when there is one
CommaRule(cleaned) ==
    IF HasChar(cleaned, ",") /\ ~HasChar(cleaned, ".")
    THEN ReplaceChar(cleaned, ",", ".")
    ELSE IF HasChar(cleaned, ",") /\ HasChar(cleaned, ".")
    THEN ReplaceChar(cleaned, ",", "")
    ELSE cleaned

\* parse_price(price_text): input <<text>> or <<>> for None
parse_price(input) ==
    IF input = <<>> \/ input[1] = <<>> THEN <<>>
    ELSE float(CommaRule(CleanPrice(input[1])))

PriceChars == {"$", "1", "5", ",", "."}

PriceExamples ==
    {<<"$", "1", ",", "2", "3", "4", ".", "5", "6">>,
     <<"1", "2", ",", "9", "9">>,
     <<"F", "r", "e", "e">>,
     <<"N", "/", "A">>,
     <<"1", "2", ".", "9", "9", " ", "U", "S", "D">>,
     <<"$", "1", ",", "2", "3", "4">>}

PriceInit ==
    /\ pr_input \in {<<>>} \cup {<<text>> : text \in SeqsUpTo(PriceChars, MaxChars) \cup PriceExamples}
    /\ pr_called = FALSE
    /\ pr_result = <<>>

PriceIdle ==
    /\ pr_input = <<>>
    /\ pr_called = FALSE
    /\ pr_result = <<>>

\* one call parse_price(price_text)
ParsePriceCall ==
    /\ ~pr_called
    /\ pr_result' = parse_price(pr_input)
    /\ pr_called' = TRUE
    /\ UNCHANGED pr_input

(***************************************************************************)
(* services/api/food_delivery_helpers.py : score_cart on two carts         *)
(***************************************************************************)
\* one-item carts of one restaurant: price 0, 1 or 2 dollars, 2 or 4 g
\* protein, from the page or estimated (CartItem.price: ge=0)
ScoreCarts ==
    {create_cart_candidate([name |-> "Ra", eta_minutes |-> 20, items |-> <<>>],
                           <<MenuItem("dish", price, protein, source)>>) :
        price \in {0, 1, 2}, protein \in {2, 4}, source \in {"actual", "estimated"}}

ScoreInit ==
    /\ sc_carts \in ScoreCarts \X ScoreCarts
    /\ \E a \in RankConstraintChoices : sc_min = a[1] /\ sc_max = a[2]
    /\ sc_scores = <<>>

ScoreIdle ==
    /\ sc_carts = <<>>
    /\ sc_min = 2
    /\ sc_max = 6
    /\ sc_scores = <<>>

\* score_cart is called on each of the two carts
ScoreCartCalls ==
    /\ sc_scores = <<>>
    /\ sc_scores' = <<score_cart(sc_carts[1], sc_min, sc_max),
                      score_cart(sc_carts[2], sc_min, sc_max)>>
    /\ UNCHANGED <<sc_carts, sc_min, sc_max>>

(***************************************************************************)
(* services/api/food_delivery_helpers.py : aggregation                     *)
(***************************************************************************)
\* aggregate_all_carts: the valid carts of every restaurant, in list order
aggregate_all_carts(restaurants, minp, maxp) ==
    FlattenSeq([i \in 1..Len(restaurants) |-> find_valid_carts(restaurants[i], minp, maxp)])

\* sorted(eligible, key=protein_grams or 0, reverse=True): stable, descending
RECURSIVE InsertByProtein(_, _)
InsertByProtein(x, s) ==
    IF s = <<>> THEN <<x>>
    ELSE IF ProteinOrZero(Head(s)) < ProteinOrZero(x)
         THEN <<x>> \o s
         ELSE <<Head(s)>> \o InsertByProtein(x, Tail(s))

RECURSIVE SortByProtein(_)
SortByProtein(s) ==
    IF s = <<>> THEN <<>>
    ELSE InsertByProtein(s[Len(s)], SortByProtein(SubSeq(s, 1, Len(s) - 1)))

\* the inner loop of find_best_attempt (lines 629-633): every item that still
\* fits under the budget is taken, in sorted order
RECURSIVE BestFill(_, _, _, _, _)
BestFill(rest, cart_items, total_protein, total_price, maxp) ==
    IF rest = <<>>
    THEN [cart_items |-> cart_items, total_protein |-> total_protein,
          total_price |-> total_price]
    ELSE LET item == Head(rest)
         IN  IF total_price + item.price < maxp
             THEN BestFill(Tail(rest), Append(cart_items, item),
                           total_protein + ProteinOrZero(item),
                           total_price + item.price, maxp)
             ELSE BestFill(Tail(rest), cart_items, total_protein, total_price, maxp)

\* the outer loop of find_best_attempt (lines 611-645); the result is
\* <<attempt>> or <<>> for None, shortfall is <<n>> for the text "<n>g protein"
\* or <<>> for None
RECURSIVE BestAttemptLoop(_, _, _, _, _)
BestAttemptLoop(restaurants, best_protein, best_attempt, minp, maxp) ==
    IF restaurants = <<>> THEN best_attempt
    ELSE LET r == Head(restaurants)
             eligible == eligible_items(r)
             fill == BestFill(SortByProtein(eligible), <<>>, 0, 0, maxp)
             shortfall == minp - fill.total_protein
         IN  IF eligible = <<>>
             THEN BestAttemptLoop(Tail(restaurants), best_protein, best_attempt, minp, maxp)
             ELSE IF fill.total_protein > best_protein
             THEN BestAttemptLoop(Tail(restaurants), fill.total_protein,
                     <<[restaurant |-> r.name,
                        protein    |-> fill.total_protein,
                        price      |-> fill.total_price,
                        shortfall  |-> IF shortfall > 0 THEN <<shortfall>> ELSE <<>>,
                        items      |-> Len(fill.cart_items)]>>,
                     minp, maxp)
             ELSE BestAttemptLoop(Tail(restaurants), best_protein, best_attempt, minp, maxp)

find_best_attempt(restaurants, minp, maxp) ==
    BestAttemptLoop(restaurants, 0, <<>>, minp, maxp)

BestItemKinds ==
    {MenuItem("big3", 2, 3, "actual"),
     MenuItem("cheap2", 1, 2, "actual")}

\* menus of eligible items, and two menus with an item without protein data
BestMenus ==
    SeqsUpTo(BestItemKinds, MaxMenu)
    \cup {<<MenuItem("fries", 1, None, "none")>>,
          <<MenuItem("fries", 1, None, "none"), MenuItem("cheap2", 1, 2, "actual")>>}

BestNames == <<"Ra", "Rb", "Rc">>

\* restaurants with different names, each with one of the menus
BestRestaurantLists ==
    {[i \in 1..Len(menus) |-> [name |-> BestNames[i], eta_minutes |-> 20, items |-> menus[i]]] :
        menus \in SeqsUpTo(BestMenus, MaxRestaurants)}

BestInit ==
    /\ ba_restaurants \in BestRestaurantLists
    /\ ba_min = 5
    /\ ba_max = 3
    /\ ba_result = <<>>
    /\ ba_called = FALSE

BestIdle ==
    /\ ba_restaurants = <<>>
    /\ ba_min = 5
    /\ ba_max = 3
    /\ ba_result = <<>>
    /\ ba_called = FALSE

\* one call find_best_attempt(restaurants, min_protein, max_price)
FindBestAttemptCall ==
    /\ ~ba_called
    /\ ba_result' = find_best_attempt(ba_restaurants, ba_min, ba_max)
    /\ ba_called' = TRUE
    /\ UNCHANGED <<ba_restaurants, ba_min, ba_max>>

(***************************************************************************)
(* services/api/food_delivery_executor.py : FoodDeliveryExecutor.execute   *)
(***************************************************************************)
\* the FailureReason literal of shared/schemas/food_delivery.py
FailureReason ==
    {"uber_eats_unavailable", "address_not_serviceable",
     "no_restaurants_found_for_search_terms", "nutrition_data_not_available",
     "no_carts_meet_protein_and_price_constraints", "bot_detection_triggered",
     "rate_limited", "unknown_error", "navigation_stalled",
     "bot_challenge_detected", "geo_selector_detected", "page_degraded"}

\* Python's None in the failure_reason field
NoReason == "None"

\* every string _setup_location returns (lines 461-582), the states of
\* _detect_page_state included
SetupResults ==
    {"success", "uber_eats_unavailable", "bot_challenge_detected",
     "geo_selector_detected", "age_gate_blocking", "navigation_stalled",
     "address_not_serviceable", "unknown_error"}

\* FoodDeliveryOutput.success; <<>> stands for the ValidationError of a
\* results list longer than max_items=3
FoodDeliveryOutput_success(results) ==
    IF Len(results) <= 3
    THEN <<[results |-> results, failure_reason |-> NoReason]>>
    ELSE <<>>

\* _failure_output -> FoodDeliveryOutput.failure; <<>> stands for the
\* ValidationError of a reason outside the FailureReason literal
failure_output(reason) ==
    IF reason \in FailureReason
    THEN <<[results |-> <<>>, failure_reason |-> reason]>>
    ELSE <<>>

\* variant of the except branch that lets the exception go
ExecuteCatch_reraise(attempt) == attempt

\* the try/except of execute (lines 213-310): attempt is the output built in
\* the try block, <<>> when an exception was raised there; the result is the
\* output execute returns, <<>> when the exception leaves execute
ExecuteCatch(attempt) ==
    IF attempt = <<>> THEN failure_output("unknown_error") ELSE attempt

\* variant that records the best attempt in every run
BestAttemptFor_always(all_carts, restaurants, minp, maxp) ==
    find_best_attempt(restaurants, minp, maxp)

\* debug.best_attempt after phase D: set only on the "not all_carts" branch
\* (lines 273-278), else the default None
BestAttemptFor(all_carts, restaurants, minp, maxp) ==
    IF all_carts = <<>> THEN find_best_attempt(restaurants, minp, maxp) ELSE <<>>

\* phase D (lines 258-306): the output built from the extracted restaurants
ProcessOutput(restaurants, minp, maxp) ==
    LET all_carts == aggregate_all_carts(restaurants, minp, maxp)
    IN  IF all_carts = <<>>
        THEN failure_output("no_carts_meet_protein_and_price_constraints")
        ELSE FoodDeliveryOutput_success(
                 rank_carts(ScoreAll(all_carts, minp, maxp), minp, maxp, 3))

FdItemKinds ==
    {MenuItem("cheap2", 1, 2, "actual"),
     MenuItem("guess", 1, 1, "estimated"),
     MenuItem("fries", 1, None, "none")}

FdRestaurants ==
    [name : {"Ra", "Rb"}, eta_minutes : {20}, items : SeqsUpTo(FdItemKinds, 2)]

\* DebugInfo(): the defaults
NewDebugInfo == [blocked_at_step |-> FALSE, best_attempt |-> <<>>]

FdInit ==
    /\ fd_pc = "setup"
    /\ fd_min \in {2, 4}
    /\ fd_max = 3
    /\ fd_restaurants = <<>>
    /\ fd_debug = NewDebugInfo
    /\ fd_output = <<>>

FdIdle ==
    /\ fd_pc = "idle"
    /\ fd_min = 2
    /\ fd_max = 3
    /\ fd_restaurants = <<>>
    /\ fd_debug = NewDebugInfo
    /\ fd_output = <<>>

\* execute returns result, or the exception leaves it when result is <<>>
FdReturn(result) ==
    /\ fd_output' = result
    /\ fd_pc' = IF result = <<>> THEN "raised" ELSE "returned"

\* phase A (lines 219-223): _setup_location returns one of its strings or
\* raises
SetupLocation ==
    /\ fd_pc = "setup"
    /\ \E setup_result \in SetupResults \cup {"raise"} :
          IF setup_result = "success"
          THEN /\ fd_pc' = "search"
               /\ UNCHANGED fd_output
          ELSE FdReturn(ExecuteCatch(IF setup_result = "raise" THEN <<>>
                                     ELSE failure_output(setup_result)))
    /\ UNCHANGED <<fd_min, fd_max, fd_restaurants, fd_debug>>

\* phase B (lines 230-237): _search_restaurants returns urls, none, or raises
SearchRestaurants ==
    /\ fd_pc = "search"
    /\ \E found \in {"urls", "none", "raise"} :
          IF found = "urls"
          THEN /\ fd_pc' = "extract"
               /\ UNCHANGED fd_output
          ELSE FdReturn(ExecuteCatch(IF found = "raise" THEN <<>>
                  ELSE failure_output("no_restaurants_found_for_search_terms")))
    /\ UNCHANGED <<fd_min, fd_max, fd_restaurants, fd_debug>>

\* phase C (lines 244-252): _extract_restaurants returns the restaurants it
\* scanned, having set blocked_at_step when a bot challenge stopped it
ExtractRestaurants ==
    /\ fd_pc = "extract"
    /\ \E restaurants \in SeqsUpTo(FdRestaurants, MaxRestaurants), blocked \in BOOLEAN :
          /\ fd_restaurants' = restaurants
          /\ fd_debug' = [fd_debug EXCEPT !.blocked_at_step = blocked]
          /\ IF blocked
             THEN FdReturn(ExecuteCatch(failure_output("bot_detection_triggered")))
             ELSE /\ fd_pc' = "process"
                  /\ UNCHANGED fd_output
    /\ UNCHANGED <<fd_min, fd_max>>

\* phase C raises
ExtractRaises ==
    /\ fd_pc = "extract"
    /\ FdReturn(ExecuteCatch(<<>>))
    /\ UNCHANGED <<fd_min, fd_max, fd_restaurants, fd_debug>>

\* phase D (lines 258-306)
ProcessCarts ==
    /\ fd_pc = "process"
    /\ fd_debug' = [fd_debug EXCEPT !.best_attempt =
                       BestAttemptFor(aggregate_all_carts(fd_restaurants, fd_min, fd_max),
                                      fd_restaurants, fd_min, fd_max)]
    /\ FdReturn(ExecuteCatch(ProcessOutput(fd_restaurants, fd_min, fd_max)))
    /\ UNCHANGED <<fd_min, fd_max, fd_restaurants>>

(***************************************************************************)
(* shared/schemas/execution.py : WorkflowResult                            *)
(***************************************************************************)
ExecutionStatus == {"pending", "running", "success", "failed", "skipped"}

\* WorkflowResult(): the field defaults
NewWorkflowResult ==
    [steps |-> <<>>, total_duration_ms |-> 0, success |-> TRUE, completed |-> FALSE]

\* variant of add_step_result that treats every non-success status as a failure
add_step_result_strict(result, step_result) ==
    [result EXCEPT
        !.steps = Append(@, step_result),
        !.total_duration_ms = @ + step_result.duration_ms,
        !.success = IF step_result.status # "success" THEN FALSE ELSE @]

\* WorkflowResult.add_step_result
add_step_result(result, step_result) ==
    [result EXCEPT
        !.steps = Append(@, step_result),
        !.total_duration_ms = @ + step_result.duration_ms,
        !.success = IF step_result.status = "failed" THEN FALSE ELSE @]

\* WorkflowResult.complete() as execute_workflow calls it: no error argument,
\* and no jobs were collected
complete(result) == [result EXCEPT !.completed = TRUE]

(***************************************************************************)
(* services/api/mcp_client.py and mcp_executor.py : the step loop          *)
(***************************************************************************)
\* the fields of the MCPToolResult dataclass
MCPToolResultFields == {"success", "content", "error", "screenshot_base64", "extracted_data"}

\* attributes of the action result that _execute_step reads inside its try
\* block on every path (lines 111, 117, 131, 135)
AttributesRead == {"success", "extracted_data", "fields_filled", "jobs_data"}

\* what a handler can do: return a result with success set or cleared, or raise
HandlerOutcomes == {"success", "failure", "raise"}

\* _execute_action for a goto step without url returns a failure result
\* before any client call (lines 189-192)
ActionOutcomes(step) ==
    IF step.action = "goto" /\ ~step.has_url THEN {"failure"} ELSE HandlerOutcomes

\* status of the StepResult built by _execute_step: "failed" from the except
\* branch when the handler raised or a read attribute is missing, else
\* "success" if action_result.success else "failed"
StepStatus(outcome) ==
    IF outcome = "raise" THEN "failed"
    ELSE IF \E attr \in AttributesRead : attr \notin MCPToolResultFields THEN "failed"
    ELSE IF outcome = "success" THEN "success" ELSE "failed"

execute_step(step, step_number, outcome, duration) ==
    [step_number |-> step_number,
     action      |-> step.action,
     status      |-> StepStatus(outcome),
     duration_ms |-> duration]

\* variant of the stop test that stops after any failed step
CriticalFailure_any(step_result, step) == step_result.status = "failed"

\* variant of the stop test that never stops
CriticalFailure_never(step_result, step) == FALSE

\* step_result.status == "failed" and step.action in ("goto",)
CriticalFailure(step_result, step) ==
    step_result.status = "failed" /\ step.action \in {"goto"}

StepActions == {"goto", "click", "extract", "wait"}
StepKinds == [action : StepActions, has_url : BOOLEAN]
DurationChoices == {0, 5}

WorkflowInit ==
    /\ wf_steps \in SeqsUpTo(StepKinds, MaxSteps)
    /\ wf_i = 0
    /\ wf_broke = FALSE
    /\ wf_result = NewWorkflowResult
    /\ wf_executed = <<>>
    /\ wf_pc = "loop"

WorkflowIdle ==
    /\ wf_steps = <<>>
    /\ wf_i = 0
    /\ wf_broke = FALSE
    /\ wf_result = NewWorkflowResult
    /\ wf_executed = <<>>
    /\ wf_pc = "idle"

\* one iteration of the loop of execute_workflow (lines 68-85)
ExecuteStep ==
    /\ wf_pc = "loop"
    /\ ~wf_broke
    /\ wf_i < Len(wf_steps)
    /\ LET step == wf_steps[wf_i + 1]
       IN  \E outcome \in ActionOutcomes(step), duration \in DurationChoices :
              LET step_result == execute_step(step, wf_i, outcome, duration)
              IN  /\ wf_executed' = Append(wf_executed, wf_i)
                  /\ wf_result' = add_step_result(wf_result, step_result)
                  /\ wf_broke' = CriticalFailure(step_result, step)
    /\ wf_i' = wf_i + 1
    /\ UNCHANGED <<wf_steps, wf_pc>>

\* after the loop: result.complete() and return (lines 87-90)
CompleteWorkflow ==
    /\ wf_pc = "loop"
    /\ wf_broke \/ wf_i = Len(wf_steps)
    /\ wf_result' = complete(wf_result)
    /\ wf_pc' = "done"
    /\ UNCHANGED <<wf_steps, wf_i, wf_broke, wf_executed>>

(***************************************************************************)
(* A WorkflowResult on its own: any StepResult may be recorded             *)
(***************************************************************************)
ResultInit ==
    /\ wf_steps = <<>>
    /\ wf_i = 0
    /\ wf_broke = FALSE
    /\ wf_result = NewWorkflowResult
    /\ wf_executed = <<>>
    /\ wf_pc = "record"

AddStepResult ==
    /\ wf_pc = "record"
    /\ Len(wf_result.steps) < MaxResults
    /\ \E a \in {"goto", "click"}, st \in ExecutionStatus, duration \in DurationChoices :
          wf_result' = add_step_result(wf_result,
                          [step_number |-> Len(wf_result.steps), action |-> a,
                           status |-> st, duration_ms |-> duration])
    /\ UNCHANGED <<wf_steps, wf_i, wf_broke, wf_executed, wf_pc>>

CompleteResult ==
    /\ wf_pc = "record"
    /\ wf_result' = complete(wf_result)
    /\ wf_pc' = "done"
    /\ UNCHANGED <<wf_steps, wf_i, wf_broke, wf_executed>>

(***************************************************************************)
(* services/api/mcp_runtime.py : PlaywrightRuntime.navigate                *)
(***************************************************************************)
\* a browser, context or page object; call and attempt record when it was
\* created.  NoObject stands for None.
NoObject == [id |-> 0, call |-> 0, attempt |-> 0]
NewObject(n) == [id |-> n, call |-> nav_calls, attempt |-> nav_attempt]

\* variant whose loop runs once more
max_retries_off_by_one == 3 + 1

max_retries == 3

\* the selectors of the readiness probe, in probing order
readiness_selectors == <<"body", "a", "button", "input", "[role]">>

\* variant of the probe that accepts every page
check_page_readiness_lenient(found) == TRUE

\* _check_page_readiness: wait_for_selector is tried selector by selector,
\* a timeout moves on to the next; found is the set of selectors the page has
check_page_readiness(found) ==
    \E k \in 1..Len(readiness_selectors) : readiness_selectors[k] \in found

\* pages met by the probe: what each holds of the probed selectors
PageContents == {{}, {"div"}, {"body"}, {"a", "[role]"}}

NoReturn == [kind |-> "none", success |-> FALSE, attempts |-> 0, cookie_dismissed |-> FALSE]

NavInit ==
    /\ rt_browser = NoObject
    /\ rt_context = NoObject
    /\ rt_page = NoObject
    /\ nav_calls = 0
    /\ nav_attempt = 0
    /\ nav_page = NoObject
    /\ nav_last_error = "none"
    /\ nav_pc = "idle"
    /\ nav_return = NoReturn
    /\ nav_loads = <<>>
    /\ nav_created = 0

NavIdle == NavInit

\* a caller invokes navigate(url)
NavigateCall ==
    /\ nav_pc \in {"idle", "done"}
    /\ nav_calls < MaxNavCalls
    /\ nav_calls' = nav_calls + 1
    /\ nav_attempt' = 0
    /\ nav_page' = NoObject
    /\ nav_last_error' = "none"
    /\ nav_return' = NoReturn
    /\ nav_pc' = "iter"
    /\ nav_loads' = <<>>
    /\ UNCHANGED <<rt_browser, rt_context, rt_page, nav_created>>

\* variant that keeps the context and only opens a new page in it
CreateFreshContext_same_context ==
    /\ nav_pc = "iter"
    /\ nav_attempt > 0
    /\ nav_attempt < max_retries
    /\ rt_context # NoObject
    /\ rt_page' = NewObject(nav_created + 1)
    /\ nav_page' = NewObject(nav_created + 1)
    /\ nav_created' = nav_created + 1
    /\ nav_pc' = "goto"
    /\ UNCHANGED <<rt_browser, rt_context, nav_calls, nav_attempt, nav_last_error,
                   nav_return, nav_loads>>

\* attempt > 0: backoff, then _create_fresh_context runs to its end; the
\* following ensure_browser returns the new page (lines 388-398)
CreateFreshContext ==
    /\ nav_pc = "iter"
    /\ nav_attempt > 0
    /\ nav_attempt < max_retries
    /\ rt_context' = NewObject(nav_created + 1)
    /\ rt_page' = NewObject(nav_created + 2)
    /\ nav_page' = NewObject(nav_created + 2)
    /\ nav_created' = nav_created + 2
    /\ nav_pc' = "goto"
    /\ UNCHANGED <<rt_browser, nav_calls, nav_attempt, nav_last_error, nav_return, nav_loads>>

\* attempt > 0: _create_fresh_context raises after closing the old page and
\* context: in new_context, in new_page or in the stealth patch; navigate
\* logs and continues with the next attempt (lines 394-396)
CreateFreshContextFails ==
    /\ nav_pc = "iter"
    /\ nav_attempt > 0
    /\ nav_attempt < max_retries
    /\ \E stage \in {"new_context", "new_page", "stealth"} :
          /\ rt_context' = IF stage = "new_context" THEN NoObject
                           ELSE NewObject(nav_created + 1)
          /\ rt_page' = IF stage = "stealth" THEN NewObject(nav_created + 2) ELSE NoObject
          /\ nav_created' = IF stage = "new_context" THEN nav_created
                            ELSE IF stage = "new_page" THEN nav_created + 1
                            ELSE nav_created + 2
    /\ nav_attempt' = nav_attempt + 1
    /\ UNCHANGED <<rt_browser, nav_calls, nav_page, nav_last_error, nav_pc,
                   nav_return, nav_loads>>

\* attempt 0: ensure_browser finds a page and returns it (lines 100-104)
EnsureBrowserHasPage ==
    /\ nav_pc = "iter"
    /\ nav_attempt = 0
    /\ rt_page # NoObject
    /\ nav_page' = rt_page
    /\ nav_pc' = "goto"
    /\ UNCHANGED <<rt_browser, rt_context, rt_page, nav_calls, nav_attempt,
                   nav_last_error, nav_return, nav_loads, nav_created>>

\* attempt 0: ensure_browser finds no page and _start_browser launches a
\* browser with a context and a page (lines 111-225)
StartBrowser ==
    /\ nav_pc = "iter"
    /\ nav_attempt = 0
    /\ rt_page = NoObject
    /\ rt_browser' = NewObject(nav_created + 1)
    /\ rt_context' = NewObject(nav_created + 2)
    /\ rt_page' = NewObject(nav_created + 3)
    /\ nav_page' = NewObject(nav_created + 3)
    /\ nav_created' = nav_created + 3
    /\ nav_pc' = "goto"
    /\ UNCHANGED <<nav_calls, nav_attempt, nav_last_error, nav_return, nav_loads>>

\* attempt 0: _start_browser raises; ensure_browser is outside every try of
\* navigate, so the exception leaves navigate (line 398)
StartBrowserFails ==
    /\ nav_pc = "iter"
    /\ nav_attempt = 0
    /\ rt_page = NoObject
    /\ \E stage \in {"launch", "new_context", "new_page", "stealth"} :
          /\ rt_browser' = IF stage = "launch" THEN rt_browser
                           ELSE NewObject(nav_created + 1)
          /\ rt_context' = IF stage \in {"launch", "new_context"} THEN rt_context
                           ELSE NewObject(nav_created + 2)
          /\ rt_page' = IF stage = "stealth" THEN NewObject(nav_created + 3) ELSE rt_page
          /\ nav_created' = CASE stage = "launch" -> nav_created
                              [] stage = "new_context" -> nav_created + 1
                              [] stage = "new_page" -> nav_created + 2
                              [] stage = "stealth" -> nav_created + 3
    /\ nav_return' = [kind |-> "raised", success |-> FALSE, attempts |-> 0,
                      cookie_dismissed |-> FALSE]
    /\ nav_pc' = "done"
    /\ UNCHANGED <<nav_calls, nav_attempt, nav_page, nav_last_error, nav_loads>>

LoadRecord(returned, found) ==
    [call |-> nav_calls, attempt |-> nav_attempt, context |-> rt_context,
     page |-> nav_page, returned |-> returned, found |-> found]

\* page.goto returns, and after the pause the readiness probe runs on the
\* page (lines 416-427); a page that is not ready ends the attempt
PageGotoAndProbe ==
    /\ nav_pc = "goto"
    /\ \E found \in PageContents :
          /\ nav_loads' = Append(nav_loads, LoadRecord(TRUE, found))
          /\ IF check_page_readiness(found)
             THEN /\ nav_pc' = "cookies"
                  /\ UNCHANGED <<nav_attempt, nav_last_error>>
             ELSE /\ nav_pc' = "iter"
                  /\ nav_attempt' = nav_attempt + 1
                  /\ nav_last_error' = "degraded"
    /\ UNCHANGED <<rt_browser, rt_context, rt_page, nav_calls, nav_page,
                   nav_return, nav_created>>

\* page.goto raises (timeout, crash, closed page); the except branch keeps
\* the message and the loop goes on (lines 445-452)
PageGotoRaises ==
    /\ nav_pc = "goto"
    /\ nav_loads' = Append(nav_loads, LoadRecord(FALSE, {}))
    /\ nav_last_error' = "exception"
    /\ nav_attempt' = nav_attempt + 1
    /\ nav_pc' = "iter"
    /\ UNCHANGED <<rt_browser, rt_context, rt_page, nav_calls, nav_page,
                   nav_return, nav_created>>

\* _try_dismiss_cookies returns True after a click, False when no selector
\* could be clicked (each failure is swallowed); navigate returns success
DismissCookiesAndReturn ==
    /\ nav_pc = "cookies"
    /\ \E cookie_dismissed \in BOOLEAN :
          nav_return' = [kind |-> "returned", success |-> TRUE,
                         attempts |-> nav_attempt + 1,
                         cookie_dismissed |-> cookie_dismissed]
    /\ nav_pc' = "done"
    /\ UNCHANGED <<rt_browser, rt_context, rt_page, nav_calls, nav_attempt, nav_page,
                   nav_last_error, nav_loads, nav_created>>

\* the loop is exhausted: the failure result (lines 454-460)
ReturnFailure ==
    /\ nav_pc = "iter"
    /\ nav_attempt >= max_retries
    /\ nav_return' = [kind |-> "returned", success |-> FALSE,
                      attempts |-> max_retries, cookie_dismissed |-> FALSE]
    /\ nav_pc' = "done"
    /\ UNCHANGED <<rt_browser, rt_context, rt_page, nav_calls, nav_attempt, nav_page,
                   nav_last_error, nav_loads, nav_created>>

NavStep ==
    \/ NavigateCall
    \/ CreateFreshContext
    \/ CreateFreshContextFails
    \/ EnsureBrowserHasPage
    \/ StartBrowser
    \/ StartBrowserFails
    \/ PageGotoAndProbe
    \/ PageGotoRaises
    \/ DismissCookiesAndReturn
    \/ ReturnFailure

(***************************************************************************)
(* Runs in progress at the same time: get_mcp_client, get_runtime and the  *)
(* browser operations of PlaywrightRuntime they reach                      *)
(***************************************************************************)
Runs == {1, 2}

NoId == 0

\* get_mcp_client (mcp_client.py lines 223-244): the module-level client,
\* made on first use; fresh is the identity a newly made object gets
get_mcp_client(client, fresh) == IF client = NoId THEN fresh ELSE client

\* get_runtime (mcp_runtime.py lines 1491-1496): the module-level runtime,
\* made on first use
get_runtime(runtime, fresh) == IF runtime = NoId THEN fresh ELSE runtime

\* PlaywrightRuntime.__init__: no page, no context
NewRuntime == [page |-> NoId, context |-> NoId]

\* ensure_browser (lines 100-104): the runtime's page, after _start_browser
\* made a context and a page when there was none
ensure_browser(rt, made) ==
    IF rt.page = NoId THEN [page |-> made + 2, context |-> made + 1] ELSE rt

\* _create_fresh_context (lines 314-354): a new context and page
create_fresh_context(rt, made) == [page |-> made + 2, context |-> made + 1]

\* what _create_fresh_context closes (lines 317-329)
ClosedByFreshContext(rt) == {rt.page, rt.context} \ {NoId}

ConcInit ==
    /\ cc_client = NoId
    /\ cc_runtime = NoId
    /\ cc_rt = [id \in Runs |-> NewRuntime]
    /\ cc_made = 0
    /\ cc_pc = [r \in Runs |-> "idle"]
    /\ cc_nav = [r \in Runs |-> 0]
    /\ cc_ops = [r \in Runs |-> 0]
    /\ cc_using = [r \in Runs |-> {}]
    /\ cc_op = <<>>

ConcIdle == ConcInit

\* a request handler obtains the client (routes/workflow.py line 282,
\* routes/food_delivery.py line 138, mcp_executor.py line 45)
StartRun ==
    \E r \in Runs :
        /\ cc_pc[r] = "idle"
        /\ cc_client' = get_mcp_client(cc_client, r)
        /\ cc_pc' = [cc_pc EXCEPT ![r] = "running"]
        /\ UNCHANGED <<cc_runtime, cc_rt, cc_made, cc_nav, cc_ops, cc_using, cc_op>>

\* one browser operation of run r through execute_mcp_tool (lines 1508-1516):
\* the runtime is fetched with get_runtime, before is that runtime's state,
\* after its state once the operation has its page, closed what it closed
BrowserOp(r, kind, rt, after, closed) ==
    /\ cc_runtime' = rt
    /\ cc_rt' = [cc_rt EXCEPT ![rt] = after]
    /\ cc_made' = IF after = cc_rt[rt] THEN cc_made ELSE cc_made + 2
    /\ cc_ops' = [cc_ops EXCEPT ![r] = @ + 1]
    /\ cc_using' = [cc_using EXCEPT ![r] = {after.page, after.context}]
    /\ cc_op' = <<[run |-> r, kind |-> kind, touched |-> closed \cup {after.page}]>>
    /\ UNCHANGED <<cc_client, cc_pc>>

\* click and extract (and the other page tools): ensure_browser, then the
\* operation on the page
PageOp ==
    \E r \in Runs :
        /\ cc_pc[r] = "running"
        /\ cc_nav[r] = 0
        /\ cc_ops[r] < MaxRunOps
        /\ \E kind \in {"click", "extract"} :
              LET rt == get_runtime(cc_runtime, r)
              IN  BrowserOp(r, kind, rt, ensure_browser(cc_rt[rt], cc_made), {})
        /\ UNCHANGED cc_nav

\* navigate, attempt 0 (lines 393-395 and 404-437): ensure_browser, page.goto
NavigateFirst ==
    \E r \in Runs :
        /\ cc_pc[r] = "running"
        /\ cc_nav[r] = 0
        /\ cc_ops[r] < MaxRunOps
        /\ LET rt == get_runtime(cc_runtime, r)
           IN  BrowserOp(r, "navigate", rt, ensure_browser(cc_rt[rt], cc_made), {})
        /\ \E ready \in BOOLEAN :
              cc_nav' = [cc_nav EXCEPT ![r] = IF ready THEN 0 ELSE 1]

\* navigate, a later attempt (lines 389-392 and 404-437):
\* _create_fresh_context, page.goto
NavigateRetry ==
    \E r \in Runs :
        /\ cc_pc[r] = "running"
        /\ cc_nav[r] > 0
        /\ LET rt == get_runtime(cc_runtime, r)
           IN  BrowserOp(r, "fresh_context", rt, create_fresh_context(cc_rt[rt], cc_made),
                         ClosedByFreshContext(cc_rt[rt]))
        /\ \E ready \in BOOLEAN :
              cc_nav' = [cc_nav EXCEPT ![r] =
                            IF ready \/ cc_nav[r] + 1 = max_retries THEN 0 ELSE @ + 1]

\* the run ends; the runtime and its page stay as they are
FinishRun ==
    \E r \in Runs :
        /\ cc_pc[r] = "running"
        /\ cc_nav[r] = 0
        /\ cc_pc' = [cc_pc EXCEPT ![r] = "done"]
        /\ cc_using' = [cc_using EXCEPT ![r] = {}]
        /\ UNCHANGED <<cc_client, cc_runtime, cc_rt, cc_made, cc_nav, cc_ops, cc_op>>

(***************************************************************************)
(* shared/schemas/workflow.py : WorkflowStep.interpolate                   *)
(*                                                                         *)
(* A text is a sequence of pieces: a piece is one ordinary character or    *)
(* one whole substring that the pattern \{\{user\.(\w+)\}\} matches.       *)
(* "{{user.}}" has no \w+ key, so the pattern does not match it: it is an  *)
(* ordinary piece.  An Optional[str] is <<>> for None and <<text>> for a   *)
(* string.                                                                 *)
(***************************************************************************)
\* the substrings the pattern matches, by their group(1)
Placeholder == [name |-> "{{user.name}}", email |-> "{{user.email}}"]

PatternMatches(piece) == \E key \in DOMAIN Placeholder : Placeholder[key] = piece

group1(piece) == CHOOSE key \in DOMAIN Placeholder : Placeholder[key] = piece

\* replacer with user_data.get(key, "")
replacer_default_empty(piece, user_data) ==
    IF group1(piece) \in DOMAIN user_data THEN user_data[group1(piece)] ELSE <<>>

\* replacer(match): user_data.get(key, match.group(0))
replacer(piece, user_data) ==
    IF group1(piece) \in DOMAIN user_data THEN user_data[group1(piece)] ELSE <<piece>>

\* re.sub(pattern, replacer, text): one pass over the text, left to right
re_sub(text, user_data) ==
    FlattenSeq([i \in 1..Len(text) |->
                   IF PatternMatches(text[i]) THEN replacer(text[i], user_data)
                   ELSE <<text[i]>>])

\* replace_placeholders(text): None and "" are returned as they are
replace_placeholders(text, user_data) ==
    IF text = <<>> \/ text[1] = <<>> THEN text ELSE <<re_sub(text[1], user_data)>>

\* the fields of a step that hold text; fields is <<>> for None, else <<map>>
StepTextFields == {"selector", "url", "value", "file", "attribute", "scroll_text",
                   "label", "source", "filter_pattern"}

\* WorkflowStep(...) as interpolate builds it
interpolate(step, user_data) ==
    [step EXCEPT
        !.selector = replace_placeholders(@, user_data),
        !.url = replace_placeholders(@, user_data),
        !.value = replace_placeholders(@, user_data),
        !.file = replace_placeholders(@, user_data),
        !.attribute = replace_placeholders(@, user_data),
        !.scroll_text = replace_placeholders(@, user_data),
        !.fields = IF step.fields # <<>> /\ DOMAIN step.fields[1] # {}
                   THEN <<[k \in DOMAIN step.fields[1] |->
                             replace_placeholders(<<step.fields[1][k]>>, user_data)[1]]>>
                   ELSE <<>>]

TextPieces == {"a", "{{user.}}"} \cup {Placeholder[k] : k \in DOMAIN Placeholder}

Texts == SeqsUpTo(TextPieces, MaxText)

\* a step with every Optional field None
BareStep == [f \in StepTextFields \cup {"fields"} |-> <<>>]

FormFieldNames == {"first_name", "email"}

InterpSteps ==
    {[BareStep EXCEPT ![f] = <<t>>] : f \in StepTextFields, t \in Texts}
    \cup {[BareStep EXCEPT !.fields = <<m>>] :
            m \in UNION {[D -> Texts] : D \in SUBSET FormFieldNames}}

\* user_data: Dict[str, str]; None and {} are both the empty map
UserDataMaps == UNION {[D -> {<<>>, <<"J">>}] : D \in SUBSET (DOMAIN Placeholder)}

InterpInit ==
    /\ ip_step \in InterpSteps
    /\ ip_user_data \in UserDataMaps
    /\ ip_out = <<>>

InterpIdle ==
    /\ ip_step = BareStep
    /\ ip_user_data = <<>>
    /\ ip_out = <<>>

\* execute_workflow: "if user_data: step = step.interpolate(user_data)"
InterpolateStep ==
    /\ ip_out = <<>>
    /\ ip_out' = <<IF DOMAIN ip_user_data # {} THEN interpolate(ip_step, ip_user_data)
                   ELSE ip_step>>
    /\ UNCHANGED <<ip_step, ip_user_data>>

(***************************************************************************)
(* services/api/mcp_executor.py : the workflow context                     *)
(*                                                                         *)
(* An Optional[str] of a step is a string, "" standing for None and for    *)
(* the empty string (the code tests both with "or"); an Optional[int] cap  *)
(* is 0 for None.  Extracted data is a record: kind says which Python      *)
(* value it is, urls holds the list (kind "list"), the value under "urls"  *)
(* (kind "dict"), or the characters of the text (kind "str").              *)
(***************************************************************************)
NoData == [kind |-> "None", urls |-> <<>>]

\* the links of a page in document order; an extracted list is a prefix
PageLinks == <<"u2", "u1", "u3", "u4">>

UrlLists == {SubSeq(PageLinks, 1, n) : n \in 0..MaxUrls}

\* what the client's extract tools return as extracted_data
ExtractedData(action) ==
    {NoData} \cup
    CASE action = "extract_links" -> {[kind |-> "dict", urls |-> l] : l \in UrlLists}
      [] action = "extract" -> {[kind |-> "list", urls |-> l] : l \in UrlLists}
      [] OTHER -> {[kind |-> "str", urls |-> <<"t">>]}

\* dict assignment: context[key] = value
Put(context, key, value) ==
    [k \in DOMAIN context \cup {key} |-> IF k = key THEN value ELSE context[k]]

\* dict.get(key, default)
Get(context, key, default) == IF key \in DOMAIN context THEN context[key] ELSE default

EmptyContext == [k \in {} |-> NoData]

\* MCPToolResult(**kwargs): the dataclass __init__ takes its fields only
MCPToolResult_init(kwargs) == IF kwargs \subseteq MCPToolResultFields THEN "ok" ELSE "TypeError"

\* label = getattr(step, 'label', None) or step.selector or 'data'
ContextKey(step) ==
    IF step.label # "" THEN step.label
    ELSE IF step.selector # "" THEN step.selector ELSE "data"

\* _execute_step lines 116-121: the store happens before fields_filled is read
StoreExtracted(context, step, data) ==
    IF data.kind = "None" THEN context ELSE Put(context, ContextKey(step), data)

\* status of the StepResult for a handler that returned a result: the read of
\* action_result.fields_filled (line 131) raises when the dataclass has no
\* such field, and the except branch records "failed"
StatusOfReturned(success) ==
    IF "fields_filled" \notin MCPToolResultFields THEN "failed"
    ELSE IF success THEN "success" ELSE "failed"

NavOutcomes == {"ok", "failed", "raised"}

\* the per-item list of a loop: entry i is for urls[i]; success is "True",
\* "False", or "unset" when the item dict has no such key
LoopItems(urls, nav) ==
    [i \in 1..Len(urls) |->
        [url |-> urls[i],
         success |-> CASE nav[i] = "ok" -> "True"
                       [] nav[i] = "failed" -> "unset"
                       [] OTHER -> "False",
         error |-> nav[i] # "ok"]]

\* JobExtractResult per URL: success is a field of the model, default True
JobItems(urls, nav) ==
    [i \in 1..Len(urls) |->
        [url |-> urls[i],
         success |-> IF nav[i] = "ok" THEN "True" ELSE "False",
         error |-> nav[i] # "ok"]]

\* urls[:cap]
Take(urls, cap) == SubSeq(urls, 1, IF cap < Len(urls) THEN cap ELSE Len(urls))

\* _execute_loop_urls up to the loop: the URL list it will walk, <<>> when it
\* returns a failure result first
LoopUrlsList(context, step) ==
    LET url_data == Get(context, IF step.source # "" THEN step.source ELSE "urls",
                        [kind |-> "dict_other", urls |-> <<>>])
        urls == IF url_data.kind \in {"dict", "list"} THEN url_data.urls ELSE <<>>
    IN  Take(urls, IF step.cap # 0 THEN step.cap ELSE 10)

\* _execute_loop_jobs up to the loop: <<"raise">> when slicing the stored
\* value raises (a dict), else <<the list it will walk>>
LoopJobsList(context, step) ==
    LET job_urls == Get(context, IF step.source # "" THEN step.source ELSE "job_links",
                        [kind |-> "list", urls |-> <<>>])
    IN  IF job_urls.kind \in {"dict", "results"} THEN <<"raise">>
        ELSE <<Take(job_urls.urls, IF step.cap # 0 THEN step.cap ELSE 5)>>

\* the extract actions whose client call exists (BaseMCPClient has no
\* extract_job_links method)
ExtractActions == {"extract_links", "extract", "extract_text"}

Labels == {"", "links"}

ExtractSteps == [action : ExtractActions, label : Labels, selector : {"", "a"}]

LoopSteps == [label : Labels, selector : {""}, source : Labels, cap : 0..MaxUrls]

\* nothing done yet; for a step: its action, label and selector, the context
\* key and data of its store, its status, and for a loop the value found under
\* the source label, the cap, the URLs navigated to with the outcome of each,
\* the per-item list built and the per-item list that outlives the handler
NoStep == [action |-> "none", label |-> "", selector |-> "", key |-> "",
           data |-> NoData, status |-> "none",
           source |-> NoData, cap |-> 0, visited |-> <<>>, nav |-> <<>>,
           items |-> <<>>, recorded |-> <<>>]

ContextInit ==
    /\ cx_context = EmptyContext
    /\ cx_run = 0
    /\ cx_i = 0
    /\ cx_pc = "idle"
    /\ cx_last = NoStep

ContextIdle == ContextInit

\* execute_workflow is entered: result and client are fetched, nothing else
StartWorkflow ==
    /\ cx_pc = "idle"
    /\ cx_run < MaxRuns
    /\ cx_run' = cx_run + 1
    /\ cx_i' = 0
    /\ cx_pc' = "run"
    /\ cx_last' = NoStep
    /\ UNCHANGED cx_context

\* _execute_step for an extract step
ExecuteExtractStep ==
    /\ cx_pc = "run"
    /\ cx_i < MaxRunSteps
    /\ \E step \in ExtractSteps : \E data \in ExtractedData(step.action) :
          /\ cx_context' = StoreExtracted(cx_context, step, data)
          /\ cx_last' = [NoStep EXCEPT !.action = step.action, !.key = ContextKey(step),
                                       !.label = step.label, !.selector = step.selector,
                                       !.data = data,
                                       !.status = StatusOfReturned(data.kind # "None")]
    /\ cx_i' = cx_i + 1
    /\ UNCHANGED <<cx_run, cx_pc>>

\* _execute_step for a loop_urls step
ExecuteLoopUrlsStep ==
    /\ cx_pc = "run"
    /\ cx_i < MaxRunSteps
    /\ \E step \in LoopSteps :
          LET urls == LoopUrlsList(cx_context, step)
          IN  \E nav \in [1..Len(urls) -> NavOutcomes] :
                LET results == LoopItems(urls, nav)
                    data == [kind |-> "results", urls |-> <<>>, items |-> results]
                    looped == Put(cx_context, "loop_urls_results", data)
                IN  /\ cx_context' = IF urls = <<>> THEN cx_context
                                     ELSE StoreExtracted(looped, step, data)
                    /\ cx_last' = [NoStep EXCEPT
                          !.action = "loop_urls",
                          !.label = step.label,
                          !.key = ContextKey(step),
                          !.nav = nav,
                          !.data = IF urls = <<>> THEN NoData ELSE data,
                          !.status = StatusOfReturned(\E i \in 1..Len(urls) : nav[i] = "ok"),
                          !.source = Get(cx_context,
                                         IF step.source # "" THEN step.source ELSE "urls", NoData),
                          !.cap = IF step.cap # 0 THEN step.cap ELSE 10,
                          !.visited = urls,
                          !.items = results,
                          !.recorded = IF urls = <<>> THEN <<>> ELSE results]
    /\ cx_i' = cx_i + 1
    /\ UNCHANGED <<cx_run, cx_pc>>

\* _execute_step for a loop_jobs step, with the add_job_result loop of
\* execute_workflow (lines 76-80)
ExecuteLoopJobsStep ==
    /\ cx_pc = "run"
    /\ cx_i < MaxRunSteps
    /\ \E step \in LoopSteps :
          LET list == LoopJobsList(cx_context, step)
              urls == IF list = <<"raise">> THEN <<>> ELSE list[1]
          IN  \E nav \in [1..Len(urls) -> NavOutcomes] :
                LET built == IF urls = <<>> THEN "ok"
                             ELSE MCPToolResult_init({"success", "content", "error", "jobs_data"})
                IN  cx_last' = [NoStep EXCEPT
                          !.action = "loop_jobs",
                          !.label = step.label,
                          !.key = ContextKey(step),
                          !.nav = nav,
                          !.status = IF built = "ok" /\ list # <<"raise">>
                                     THEN StatusOfReturned(\E i \in 1..Len(urls) : nav[i] = "ok")
                                     ELSE "failed",
                          !.source = Get(cx_context,
                                         IF step.source # "" THEN step.source ELSE "job_links",
                                         NoData),
                          !.cap = IF step.cap # 0 THEN step.cap ELSE 5,
                          !.visited = urls,
                          !.items = JobItems(urls, nav),
                          !.recorded = IF built = "ok"
                                          /\ StatusOfReturned(TRUE) = "success"
                                       THEN JobItems(urls, nav) ELSE <<>>]
    /\ cx_i' = cx_i + 1
    /\ UNCHANGED <<cx_context, cx_run, cx_pc>>

\* result.complete() and return
FinishWorkflow ==
    /\ cx_pc = "run"
    /\ cx_pc' = "idle"
    /\ cx_last' = NoStep
    /\ UNCHANGED <<cx_context, cx_run, cx_i>>

(***************************************************************************)
(* services/api/greenhouse_helpers.py : try_selectors                      *)
(*                                                                         *)
(* A client call on a selector returns a result with success set ("ok"),   *)
(* returns one without ("fail", error "" standing for None), or raises.    *)
(***************************************************************************)
AttemptOutcomes == {[kind |-> "ok", error |-> ""],
                    [kind |-> "fail", error |-> "e1"],
                    [kind |-> "fail", error |-> ""],
                    [kind |-> "raise", error |-> "e2"]}

\* variant that never returns from inside the loop
AttemptSucceeded_never(outcome) == FALSE

\* "if result.success:" on a call that returned
AttemptSucceeded(outcome) == outcome.kind = "ok"

\* the for loop of try_selectors from selector i on; attempted lists the
\* selectors the client was called with, in call order
RECURSIVE TrySelectorsLoop(_, _, _, _, _, _)
TrySelectorsLoop(selectors, action, outcomes, i, last_error, attempted) ==
    IF i > Len(selectors)
    THEN [success |-> FALSE, selector_used |-> <<>>,
          error |-> IF last_error # "" THEN last_error ELSE "No selector worked",
          attempted |-> attempted]
    ELSE IF action \notin {"click", "fill"}
    THEN TrySelectorsLoop(selectors, action, outcomes, i + 1, last_error, attempted)
    ELSE IF AttemptSucceeded(outcomes[i])
    THEN [success |-> TRUE, selector_used |-> <<selectors[i]>>, error |-> "",
          attempted |-> Append(attempted, selectors[i])]
    ELSE TrySelectorsLoop(selectors, action, outcomes, i + 1, outcomes[i].error,
                          Append(attempted, selectors[i]))

try_selectors(selectors, action, outcomes) ==
    TrySelectorsLoop(selectors, action, outcomes, 1, "", <<>>)

CandidateSelectors == {"s1", "s2", "s3", "s4"}

TryInit ==
    /\ ts_selectors \in {l \in SeqsUpTo(CandidateSelectors, MaxSelectors) :
                            \A i, j \in 1..Len(l) : l[i] = l[j] => i = j}
    /\ ts_action \in {"click", "fill"}
    /\ ts_outcomes \in [1..Len(ts_selectors) -> AttemptOutcomes]
    /\ ts_return = <<>>

TryIdle ==
    /\ ts_selectors = <<>>
    /\ ts_action = "click"
    /\ ts_outcomes = <<>>
    /\ ts_return = <<>>

TrySelectorsCall ==
    /\ ts_return = <<>>
    /\ ts_return' = <<try_selectors(ts_selectors, ts_action, ts_outcomes)>>
    /\ UNCHANGED <<ts_selectors, ts_action, ts_outcomes>>

(***************************************************************************)
(* services/api/mcp_executor.py : _execute_fill_form                       *)
(*                                                                         *)
(* The fields map is a sequence of [name, value] in dict order; a value is *)
(* a text as in interpolate.  A selector is a pair: <<"step", 0>> for      *)
(* step.selector, <<field, n>> for the n-th selector of a field.           *)
(***************************************************************************)
\* the pieces of a text that begin with "{{user."
UserPrefixed == {"{{user.}}"} \cup {Placeholder[k] : k \in DOMAIN Placeholder}

\* "if not value or value.startswith("{{user."):"
SkipField(value) == value = <<>> \/ Head(value) \in UserPrefixed

\* greenhouse_helpers.get_field_selectors: an ordered list per field
get_field_selectors(field_name) == <<<<field_name, 1>>, <<field_name, 2>>>>

\* the selectors tried for a field (lines 390-395)
FieldSelectors(step, field_name) ==
    IF step.auto_detect THEN get_field_selectors(field_name)
    ELSE IF step.selector THEN <<<<"step", 0>>>>
    ELSE get_field_selectors(field_name)

\* FieldFillResult of one field
FieldFillResult(field_name, value, tried) ==
    IF SkipField(value)
    THEN [field_name |-> field_name, selector_used |-> <<"none", 0>>, success |-> FALSE,
          error |-> "Empty value or uninterpolated placeholder"]
    ELSE IF tried.success
    THEN [field_name |-> field_name, selector_used |-> tried.selector_used[1],
          success |-> TRUE, error |-> ""]
    ELSE [field_name |-> field_name, selector_used |-> <<"none", 0>>, success |-> FALSE,
          error |-> tried.error]

\* status = "success" if all filled else "partial" if some else "failed"
FillStatus(success_count, field_count) ==
    IF success_count = field_count THEN "success"
    ELSE IF success_count > 0 THEN "partial" ELSE "failed"

FillValues == {<<>>, <<"a">>, <<"{{user.name}}">>, <<"a", "{{user.name}}">>}

FormFields == <<"first_name", "email", "phone", "location">>

FillSteps ==
    [fields : UNION {[1..n -> FillValues] : n \in 0..MaxFields},
     selector : BOOLEAN, auto_detect : BOOLEAN]

NoFill == [called |-> FALSE, attempted |-> <<>>, sub |-> <<>>, handler_status |-> "",
           raised |-> "", status |-> "", fields_filled |-> <<>>]

FillInit ==
    /\ ff_step \in FillSteps
    /\ ff_last = NoFill

FillIdle ==
    /\ ff_step = [fields |-> <<>>, selector |-> FALSE, auto_detect |-> FALSE]
    /\ ff_last = NoFill

\* _execute_step for a fill_form step: the loop over the fields, the result
\* the handler builds, and the StepResult; fields_filled of the StepResult is
\* <<>> for None, else <<list>>
ExecuteFillFormStep ==
    /\ ~ff_last.called
    /\ LET n == Len(ff_step.fields)
           selectors(i) == FieldSelectors(ff_step, FormFields[i])
       IN  \E outcomes \in [1..n -> [1..2 -> {[kind |-> "ok", error |-> ""],
                                               [kind |-> "fail", error |-> "e1"]}]] :
             LET tried(i) == try_selectors(selectors(i), "fill",
                                           SubSeq(outcomes[i], 1, Len(selectors(i))))
                 sub == [i \in 1..n |->
                            FieldFillResult(FormFields[i], ff_step.fields[i], tried(i))]
                 attempted == {i \in 1..n : ~SkipField(ff_step.fields[i])}
                 success_count == Cardinality({i \in 1..n : sub[i].success})
                 built == IF n = 0 THEN "ok"
                          ELSE MCPToolResult_init({"success", "content", "error",
                                                   "fields_filled"})
                 returned == built = "ok" /\ "fields_filled" \in MCPToolResultFields
             IN  ff_last' = [called |-> TRUE,
                             attempted |-> attempted,
                             sub |-> sub,
                             handler_status |-> IF n = 0 THEN ""
                                                ELSE FillStatus(success_count, n),
                             raised |-> IF built # "ok" THEN built
                                        ELSE IF ~returned THEN "AttributeError" ELSE "",
                             status |-> IF returned /\ success_count > 0
                                        THEN "success" ELSE "failed",
                             fields_filled |-> IF returned /\ n > 0 THEN <<sub>> ELSE <<>>]
    /\ UNCHANGED ff_step

(***************************************************************************)
(* services/api/food_delivery_executor.py : _detect_page_state             *)
(*                                                                         *)
(* A tool result is a record of its attributes.  The runtime answers a     *)
(* probe with a dict; execute_mcp_tool copies five of its keys into an     *)
(* MCPToolResult; a client of another kind may hand on every key.          *)
(***************************************************************************)
\* the SELECTORS groups that _detect_page_state probes
ProbedGroups == {"bot_challenge", "geo_selector", "consent_wall", "age_gate",
                 "address_reveal_button", "address_input"}

\* PlaywrightRuntime.probe_selector: the dict it returns
probe_selector(found) == [success |-> TRUE, exists |-> found, visible |-> found]

\* execute_mcp_tool: MCPToolResult(success=result.get("success", True), ...);
\* only the dataclass fields are copied
execute_mcp_tool(result) ==
    [f \in MCPToolResultFields \cap (DOMAIN result \cup {"success"}) |->
        IF f \in DOMAIN result THEN result[f] ELSE TRUE]

\* what the executor's client hands back for a runtime answer
ClientResult(client, result) ==
    IF client = "CursorMCPClient" THEN execute_mcp_tool(result) ELSE result

\* getattr(obj, name, default)
getattr(obj, name, default) == IF name \in DOMAIN obj THEN obj[name] ELSE default

\* _probe_selector: result.success and getattr(result, 'exists', False)
_probe_selector(result) == result.success /\ getattr(result, "exists", FALSE)

\* _detect_page_state: probe[g] says whether a probe of group g answered
\* true; the consent wall loop only breaks and returns nothing
DetectPageState(probe) ==
    IF probe["bot_challenge"] THEN "bot_challenge_detected"
    ELSE IF probe["geo_selector"] THEN "geo_selector_detected"
    ELSE IF probe["age_gate"] THEN "age_gate_blocking"
    ELSE IF ~(probe["address_reveal_button"] \/ probe["address_input"])
    THEN "navigation_stalled"
    ELSE "healthy"

PageInit ==
    /\ pg_present \in SUBSET ProbedGroups
    /\ pg_client \in {"CursorMCPClient", "other"}
    /\ pg_state = ""
    /\ pg_output = <<>>

PageIdle ==
    /\ pg_present = {}
    /\ pg_client = "CursorMCPClient"
    /\ pg_state = ""
    /\ pg_output = <<>>

\* _setup_location step 2: page_state = await self._detect_page_state()
DetectPageStateCall ==
    /\ pg_state = ""
    /\ pg_state' = DetectPageState(
          [g \in ProbedGroups |->
              _probe_selector(ClientResult(pg_client, probe_selector(g \in pg_present)))])
    /\ UNCHANGED <<pg_present, pg_client, pg_output>>

\* _setup_location returns the page state of a page that is not healthy and
\* execute returns _failure_output(setup_result) inside its try block
ReturnPageStateFailure ==
    /\ pg_state \notin {"", "healthy"}
    /\ pg_output = <<>>
    /\ pg_output' = ExecuteCatch(failure_output(pg_state))
    /\ UNCHANGED <<pg_present, pg_client, pg_state>>

(***************************************************************************)
(* services/api/food_delivery_executor.py : nav_attempts of _setup_location *)
(***************************************************************************)
\* self.debug.nav_attempts = getattr(nav_result, 'attempts', 1), where
\* nav_result is what the client made of the dict navigate returned
DebugNavAttempts(client, navigate_result) ==
    getattr(ClientResult(client, navigate_result), "attempts", 1)

(***************************************************************************)
(* services/api/mcp_runtime.py : PlaywrightRuntime.screenshot              *)
(*                                                                         *)
(* A capture is what one page.screenshot call does: the seconds it takes   *)
(* and whether it ends by raising.  asyncio.wait_for turns a capture that  *)
(* takes longer than its budget into TimeoutError.                         *)
(***************************************************************************)
\* the timeouts the callers pass: screenshot(), screenshot_fast(), and a
\* "timeout" argument of the browser_screenshot tool
PrimaryBudgets == {10000, 5000, 3000}

\* timeout=5.0 of the fallback capture
FallbackBudget == 5

CaptureSeconds == {1, 4, 7, 12}
Captures == [takes : CaptureSeconds, raises : BOOLEAN]

\* page.screenshot(type="jpeg", quality=..., clip=...): the bytes, or the
\* exception it raises
page_screenshot(quality, clip, capture) ==
    IF capture.raises
    THEN [kind |-> "Error", image |-> <<>>]
    ELSE [kind |-> "bytes", image |-> <<"jpeg", quality, clip>>]

\* asyncio.wait_for(coro, timeout=seconds)
wait_for(capture, outcome, seconds) ==
    IF capture.takes > seconds
    THEN [kind |-> "TimeoutError", image |-> <<>>]
    ELSE outcome

\* base64.b64encode(screenshot_bytes).decode("utf-8")
b64encode(image) == <<"base64">> \o image

ShotRecord(clip, seconds, capture, outcome) ==
    [clip |-> clip, budget |-> seconds, takes |-> capture.takes,
     outcome |-> outcome.kind]

\* variant that fails outright when the primary capture timed out
ScreenshotFallback_fail_outright(fallback) ==
    [shots |-> <<>>,
     return |-> [kind |-> "returned", success |-> FALSE,
                 error |-> "Screenshot timed out"]]

\* the fallback branch (lines 650-669), entered on asyncio.TimeoutError
ScreenshotFallback(fallback) ==
    LET second == wait_for(fallback, page_screenshot(60, TRUE, fallback),
                           FallbackBudget)
    IN  [shots |-> <<ShotRecord(TRUE, FallbackBudget, fallback, second)>>,
         return |->
            IF second.kind = "bytes"
            THEN [kind |-> "returned", success |-> TRUE,
                  content |-> "Screenshot captured (fallback viewport clip)",
                  screenshot_base64 |-> b64encode(second.image)]
            ELSE [kind |-> "returned", success |-> FALSE,
                  error |-> "Screenshot timed out even with fallback"]]

\* PlaywrightRuntime.screenshot(timeout) on a runtime whose page is set, or
\* whose _start_browser succeeds (start_ok) or raises
screenshot(has_page, start_ok, timeout, primary, fallback) ==
    IF ~has_page /\ ~start_ok
    THEN [shots |-> <<>>, return |-> [kind |-> "raised"]]
    ELSE
    LET seconds == timeout \div 1000
        first == wait_for(primary, page_screenshot(80, FALSE, primary), seconds)
        shot == <<ShotRecord(FALSE, seconds, primary, first)>>
    IN  IF first.kind = "bytes"
        THEN [shots |-> shot,
              return |-> [kind |-> "returned", success |-> TRUE,
                          content |-> "Screenshot captured",
                          screenshot_base64 |-> b64encode(first.image)]]
        ELSE IF first.kind = "TimeoutError"
        THEN LET fb == ScreenshotFallback(fallback)
             IN  [shots |-> shot \o fb.shots, return |-> fb.return]
        ELSE [shots |-> shot,
              return |-> [kind |-> "returned", success |-> FALSE,
                          error |-> "Screenshot failed"]]

ShotInit ==
    /\ ss_page \in BOOLEAN
    /\ ss_calls = 0
    /\ ss_timeout = 0
    /\ ss_shots = <<>>
    /\ ss_return = [kind |-> "none"]

ShotIdle ==
    /\ ss_page = FALSE
    /\ ss_calls = 0
    /\ ss_timeout = 0
    /\ ss_shots = <<>>
    /\ ss_return = [kind |-> "none"]

\* one call of screenshot (or of screenshot_fast, which passes 5000)
ScreenshotCall ==
    /\ ss_calls < MaxShotCalls
    /\ \E timeout \in PrimaryBudgets, start_ok \in BOOLEAN,
          primary \in Captures, fallback \in Captures :
        LET r == screenshot(ss_page, start_ok, timeout, primary, fallback)
        IN  /\ ss_timeout' = timeout
            /\ ss_shots' = r.shots
            /\ ss_return' = r.return
            /\ ss_page' = (ss_page \/ start_ok)
    /\ ss_calls' = ss_calls + 1

(***************************************************************************)
(* services/api/food_delivery_executor.py : the outbound IP check of       *)
(* _setup_location (step 0) and the navigations of a run                   *)
(*                                                                         *)
(* An address is the list of its dot-separated parts; a page body is       *)
(* the JSON ipify answers with, a bare address, or a text without one.     *)
(***************************************************************************)
IpifyUrl == "https://api.ipify.org?format=json"
TargetUrl == "https://www.ubereats.com"

\* the prefixes of line 381: "34.", "35.", ... match the first part
DatacenterFirstParts == {34, 35, 104, 52, 54, 18, 3, 13, 23, 44}

IpAddresses == {<<34, 1, 2, 3>>, <<3, 9, 9, 9>>, <<73, 5, 6, 7>>, <<130, 1, 1, 1>>}
PageBodies == [format : {"json", "plain", "other"}, ip : IpAddresses]

\* what the client hands back for browser_get_content on the loaded page
GetContent(client, body, content_ok) ==
    IF client = "SimulatedMCPClient"
    THEN [success |-> TRUE, content |-> [format |-> "other", ip |-> <<>>]]
    ELSE IF content_ok
    THEN [success |-> TRUE, content |-> body]
    ELSE [success |-> FALSE, content |-> [format |-> "other", ip |-> <<>>]]

\* the two re.search calls of lines 367-371: the address, or <<>> for no match
ip_match(content) ==
    IF content.format \in {"json", "plain"} THEN <<content.ip>> ELSE <<>>

\* FoodDeliveryExecutor._verify_outbound_ip
verify_outbound_ip(nav_success, content_result) ==
    IF ~nav_success
    THEN [ip |-> <<>>, verification_success |-> FALSE, error |-> "Navigation failed"]
    ELSE IF content_result.success /\ ip_match(content_result.content) # <<>>
    THEN LET ip_address == ip_match(content_result.content)[1]
         IN  [ip |-> <<ip_address>>,
              is_likely_datacenter |-> ip_address[1] \in DatacenterFirstParts,
              verification_success |-> TRUE]
    ELSE [ip |-> <<>>, verification_success |-> FALSE, error |-> "Parse error"]

\* ip_result.get(key, default)
dict_get(dict, key, default) == IF key \in DOMAIN dict THEN dict[key] ELSE default

\* variant that gives up when the address looks like a datacenter
AfterIpCheck_abort_on_datacenter(ip_result) ==
    IF dict_get(ip_result, "is_likely_datacenter", FALSE)
    THEN "uber_eats_unavailable" ELSE "step1"

\* lines 486-489: the classification is logged and step 1 follows
AfterIpCheck(ip_result) == "step1"

IpInit ==
    /\ oi_client \in {"CursorMCPClient", "SimulatedMCPClient"}
    /\ oi_pc = "step0"
    /\ oi_navs = <<>>
    /\ oi_debug = [outbound_ip |-> <<>>, ip_is_datacenter |-> "None"]
    /\ oi_check = <<>>
    /\ oi_output = <<>>

IpIdle ==
    /\ oi_client = "CursorMCPClient"
    /\ oi_pc = "idle"
    /\ oi_navs = <<>>
    /\ oi_debug = [outbound_ip |-> <<>>, ip_is_datacenter |-> "None"]
    /\ oi_check = <<>>
    /\ oi_output = <<>>

\* the navigate of a client: the simulated client reports success always
NavigateOutcomes(client) ==
    IF client = "SimulatedMCPClient" THEN {TRUE} ELSE BOOLEAN

\* execute returns the failure output for reason
IpRunEnds(reason) ==
    /\ oi_pc' = "returned"
    /\ oi_output' = ExecuteCatch(failure_output(reason))

\* step 0 of _setup_location (lines 470-489)
VerifyOutboundIp ==
    /\ oi_pc = "step0"
    /\ \E nav_success \in NavigateOutcomes(oi_client), body \in PageBodies,
          content_ok \in BOOLEAN :
        LET ip_result == verify_outbound_ip(nav_success,
                            GetContent(oi_client, body, content_ok))
            next == AfterIpCheck(ip_result)
        IN  /\ oi_check' = <<ip_result>>
            /\ oi_debug' = [outbound_ip |-> dict_get(ip_result, "ip", <<>>),
                            ip_is_datacenter |->
                                dict_get(ip_result, "is_likely_datacenter", TRUE)]
            /\ IF next = "step1"
               THEN oi_pc' = "step1" /\ UNCHANGED oi_output
               ELSE IpRunEnds(next)
    /\ oi_navs' = Append(oi_navs, IpifyUrl)
    /\ UNCHANGED oi_client

\* step 1 (lines 491-501): the navigation to the target site
NavigateToTarget ==
    /\ oi_pc = "step1"
    /\ oi_navs' = Append(oi_navs, TargetUrl)
    /\ \E nav_success \in NavigateOutcomes(oi_client) :
          IF nav_success
          THEN oi_pc' = "setup" /\ UNCHANGED oi_output
          ELSE IpRunEnds("uber_eats_unavailable")
    /\ UNCHANGED <<oi_client, oi_debug, oi_check>>

\* steps 2-6 (lines 503-582) and phase B: no client.navigate call
FinishSetupAndSearch ==
    /\ oi_pc = "setup"
    /\ \E result \in (SetupResults \ {"uber_eats_unavailable"})
                        \cup {"no_restaurants_found_for_search_terms"} :
          IF result = "success"
          THEN oi_pc' = "scan" /\ UNCHANGED oi_output
          ELSE IpRunEnds(result)
    /\ UNCHANGED <<oi_client, oi_navs, oi_debug, oi_check>>

RestaurantUrl(n) == <<TargetUrl, "/store/", n>>

\* _extract_single_restaurant (line 851): one navigation per restaurant
ScanRestaurant ==
    /\ oi_pc = "scan"
    /\ Len(oi_navs) < 2 + MaxScans
    /\ oi_navs' = Append(oi_navs, RestaurantUrl(Len(oi_navs) - 1))
    /\ UNCHANGED <<oi_client, oi_pc, oi_debug, oi_check, oi_output>>

\* phase D: execute returns its output
FinishScan ==
    /\ oi_pc = "scan"
    /\ \E reason \in {NoReason, "bot_detection_triggered",
                      "no_carts_meet_protein_and_price_constraints"} :
          /\ oi_output' = <<[results |-> <<>>, failure_reason |-> reason]>>
          /\ oi_pc' = "returned"
    /\ UNCHANGED <<oi_client, oi_navs, oi_debug, oi_check>>

(***************************************************************************)
(* Cart assembly on menus with more items than a cart may hold             *)
(***************************************************************************)
LargeMenuKinds ==
    {MenuItem("cheap1", 1, 1, "actual"),
     MenuItem("guess", 1, 1, "estimated"),
     MenuItem("dear2", 2, 2, "actual")}

LargeMenuInit ==
    /\ restaurant \in [name : {"R1"}, eta_minutes : {30},
                       items : SeqsUpTo(LargeMenuKinds, MaxLargeMenu)]
    /\ min_protein \in {5, 6}
    /\ max_price \in {6, 9}
    /\ valid_carts = <<>>
    /\ cartPhase = "input"

(***************************************************************************)
(* services/api/mcp_executor.py : _execute_step for every action kind      *)
(***************************************************************************)
\* the ActionType literal of shared/schemas/workflow.py
ActionType ==
    {"goto", "click", "type", "upload", "wait", "scroll", "extract",
     "screenshot", "fill_form", "click_first_job", "extract_job_links",
     "loop_jobs", "extract_links", "extract_text", "extract_attributes",
     "scroll_until", "random_scroll", "detect_block", "wait_for_selector",
     "loop_urls"}

\* keyword arguments of the MCPToolResult a handler builds on its last line
HandlerKwargs(action) ==
    CASE action = "fill_form" -> {"success", "content", "error", "fields_filled"}
      [] action = "loop_jobs" -> {"success", "content", "extracted_data", "jobs_data"}
      [] OTHER -> {"success", "content", "error", "extracted_data"}

\* what _execute_action does for a handler that is about to return outcome:
\* building the result raises TypeError when a keyword is no dataclass field
ExecuteAction(action, outcome) ==
    IF outcome # "raise" /\ MCPToolResult_init(HandlerKwargs(action)) = "TypeError"
    THEN "raise" ELSE outcome

StepInit ==
    /\ sr_step = [action |-> "goto", has_url |-> TRUE]
    /\ sr_handler = ""
    /\ sr_result = execute_step([action |-> "goto"], 0, "raise", 0)
    /\ sr_calls = 0

StepIdle == StepInit

\* one _execute_step call
ExecuteOneStep ==
    /\ sr_calls < MaxStepCalls
    /\ \E action \in ActionType, outcome \in HandlerOutcomes, duration \in DurationChoices :
          LET handled == ExecuteAction(action, outcome)
          IN  /\ sr_step' = [action |-> action, has_url |-> TRUE]
              /\ sr_handler' = handled
              /\ sr_result' = execute_step([action |-> action], sr_calls, handled, duration)
    /\ sr_calls' = sr_calls + 1

(***************************************************************************)
(* services/api/mcp_executor.py : the detect_block step                    *)
(***************************************************************************)
\* PlaywrightRuntime.detect_block: the dict it returns for a page
detect_block(blocked) ==
    [success |-> TRUE,
     content |-> IF blocked THEN "Block detection complete: BLOCKED"
                 ELSE "Block detection complete: OK",
     blocked |-> blocked,
     block_type |-> IF blocked THEN "access_denied" ELSE "None"]

BotBlockError == "Bot block detected. Workflow aborted."

\* _execute_action for a detect_block step (lines 319-332); result is what
\* client.call_tool("browser_detect_block") handed back
DetectBlockAction(step, result) ==
    IF step.abort_on_block /\ result.success
       /\ "blocked" \in DOMAIN result /\ result.blocked
    THEN [success |-> FALSE, content |-> result.content, error |-> BotBlockError]
    ELSE result

\* error of the StepResult: str(e) from the except branch, else
\* action_result.error
StepError(action_result) ==
    IF \E attr \in AttributesRead : attr \notin DOMAIN action_result
    THEN "AttributeError"
    ELSE getattr(action_result, "error", "None")

BlockStepKinds ==
    {[action |-> "detect_block", abort_on_block |-> TRUE],
     [action |-> "detect_block", abort_on_block |-> FALSE],
     [action |-> "click", abort_on_block |-> FALSE]}

BlockInit ==
    /\ bk_steps \in UNION {[1..n -> BlockStepKinds] : n \in 1..MaxBlockSteps}
    /\ bk_blocked \in [1..Len(bk_steps) -> BOOLEAN]
    /\ bk_client \in {"CursorMCPClient", "other"}
    /\ bk_i = 0
    /\ bk_results = <<>>
    /\ bk_pc = "loop"

BlockIdle ==
    /\ bk_steps = <<>>
    /\ bk_blocked = <<>>
    /\ bk_client = "CursorMCPClient"
    /\ bk_i = 0
    /\ bk_results = <<>>
    /\ bk_pc = "idle"

\* one iteration of the loop of execute_workflow for these steps
ExecuteBlockStep ==
    /\ bk_pc = "loop"
    /\ bk_i < Len(bk_steps)
    /\ LET step == bk_steps[bk_i + 1]
           result == ClientResult(bk_client, detect_block(bk_blocked[bk_i + 1]))
           action_result ==
               IF step.action = "detect_block"
               THEN DetectBlockAction(step, result)
               ELSE ClientResult(bk_client, [success |-> TRUE, content |-> "Clicked"])
           outcome == IF action_result.success THEN "success" ELSE "failure"
           step_result == [step_number |-> bk_i, action |-> step.action,
                           status |-> StepStatus(outcome),
                           error |-> StepError(action_result)]
       IN  /\ bk_results' = Append(bk_results, step_result)
           /\ IF CriticalFailure(step_result, step)
              THEN bk_pc' = "done"
              ELSE bk_pc' = IF bk_i + 1 = Len(bk_steps) THEN "done" ELSE "loop"
    /\ bk_i' = bk_i + 1
    /\ UNCHANGED <<bk_steps, bk_blocked, bk_client>>

(***************************************************************************)
(* Phase D of execute on a restaurant with a large menu                    *)
(***************************************************************************)
ShortfallInit ==
    /\ fd_pc = "process"
    /\ fd_min \in {5, 6}
    /\ fd_max \in {6, 9}
    /\ fd_restaurants \in
          {<<[name |-> "Ra", eta_minutes |-> 20, items |-> menu]>> :
              menu \in SeqsUpTo(LargeMenuKinds, MaxLargeMenu)}
    /\ fd_debug = NewDebugInfo
    /\ fd_output = <<>>

(***************************************************************************)
(* services/api/food_delivery_executor.py : the name of an extracted       *)
(* restaurant, and the ranking of carts of several restaurants             *)
(***************************************************************************)
\* lines 857-860: the text of the first matching name selector, or the
\* default name when none gave a text
RestaurantName(text, url) == IF text = "" THEN "Unknown Restaurant" ELSE text

\* the URL _search_restaurants found for the n-th restaurant
StoreUrl(n) == <<"https://www.ubereats.com/store/", n>>

\* ExtractedRestaurant(name=name, url=url, ...) of _extract_single_restaurant
ExtractedRestaurantOf(page, n) ==
    [name |-> RestaurantName(page.name_text, StoreUrl(n)), url |-> StoreUrl(n),
     eta_minutes |-> 20, items |-> page.items]

PageNameTexts == {"", "Burger Place", "Grill"}

DedupInit ==
    /\ dd_pages \in UNION {[1..n -> [name_text : PageNameTexts, items : CartShapes]] :
                             n \in 1..MaxPages}
    /\ dd_restaurants = <<>>
    /\ dd_ranked = <<>>
    /\ dd_pc = "pages"

DedupIdle ==
    /\ dd_pages = <<>>
    /\ dd_restaurants = <<>>
    /\ dd_ranked = <<>>
    /\ dd_pc = "idle"

\* _extract_restaurants: one ExtractedRestaurant per page
ExtractPages ==
    /\ dd_pc = "pages"
    /\ dd_restaurants' = [n \in 1..Len(dd_pages) |-> ExtractedRestaurantOf(dd_pages[n], n)]
    /\ dd_pc' = "extracted"
    /\ UNCHANGED <<dd_pages, dd_ranked>>

\* phase D: one cart per restaurant (all its items), then rank_carts
RankExtracted ==
    /\ dd_pc = "extracted"
    /\ LET carts == [n \in 1..Len(dd_restaurants) |->
                        create_cart_candidate(dd_restaurants[n], dd_restaurants[n].items)]
       IN  dd_ranked' = rank_carts(ScoreAll(carts, 2, 6), 2, 6, top_n)
    /\ dd_pc' = "ranked"
    /\ UNCHANGED <<dd_pages, dd_restaurants>>

(***************************************************************************)
(* services/api/food_delivery_helpers.py : process_extracted_item applied  *)
(* to items that were processed before                                     *)
(***************************************************************************)
\* [process_extracted_item(item) for item in items] once more, on the items
\* the first pass returned
ProcessAgain ==
    /\ it_pc = "processed"
    /\ LET out == ProcessItems(<<>>, it_items)
       IN  /\ it_items' = out.items
           /\ it_pc' = IF out.raised THEN "raised" ELSE "again"
    /\ UNCHANGED <<it_raw, it_min, it_carts>>

(***************************************************************************)
(* services/api/mcp_runtime.py : ensure_browser and _start_browser with    *)
(* several callers on one event loop.  A caller runs without interruption  *)
(* from one await to the next; objects are named after the caller whose    *)
(* call made them.                                                        *)
(***************************************************************************)
Callers == 1..MaxCallers

\* line 102: if self._page is None
StartNeeded(self) == self.page = None

EnsureInit ==
    /\ eb_pc = [c \in Callers |-> "idle"]
    /\ eb_self = [playwright |-> None, browser |-> None,
                  context |-> None, page |-> None]
    /\ eb_started = {}
    /\ eb_got = [c \in Callers |-> None]
    /\ eb_stealth \in BOOLEAN

EnsureIdle ==
    /\ eb_pc = <<>>
    /\ eb_self = <<>>
    /\ eb_started = {}
    /\ eb_got = <<>>
    /\ eb_stealth = FALSE

\* lines 101-104 and 111-159: the page is returned when there is one;
\* otherwise _start_browser runs up to "await async_playwright().start()"
EnsureBrowser(c) ==
    /\ eb_pc[c] = "idle"
    /\ IF StartNeeded(eb_self)
       THEN /\ eb_pc' = [eb_pc EXCEPT ![c] = "playwright"]
            /\ UNCHANGED eb_got
       ELSE /\ eb_self.page # None
            /\ eb_pc' = [eb_pc EXCEPT ![c] = "done"]
            /\ eb_got' = [eb_got EXCEPT ![c] = eb_self.page]
    /\ UNCHANGED <<eb_self, eb_started, eb_stealth>>

\* line 159 resumes, up to "await self._playwright.chromium.launch(...)"
PlaywrightStarted(c) ==
    /\ eb_pc[c] = "playwright"
    /\ eb_self' = [eb_self EXCEPT !.playwright = c]
    /\ eb_pc' = [eb_pc EXCEPT ![c] = "launch"]
    /\ UNCHANGED <<eb_started, eb_got, eb_stealth>>

\* line 194 resumes with a browser, up to "await self._browser.new_context"
\* (line 207); a launch that raises ends the call
BrowserLaunched(c) ==
    /\ eb_pc[c] = "launch"
    /\ \E launched \in BOOLEAN :
          IF launched
          THEN /\ eb_started' = eb_started \cup {c}
               /\ eb_self' = [eb_self EXCEPT !.browser = c]
               /\ eb_pc' = [eb_pc EXCEPT ![c] = "context"]
          ELSE /\ eb_pc' = [eb_pc EXCEPT ![c] = "raised"]
               /\ UNCHANGED <<eb_self, eb_started>>
    /\ UNCHANGED <<eb_got, eb_stealth>>

\* line 207 resumes, up to "await self._context.new_page()" (line 208)
ContextCreated(c) ==
    /\ eb_pc[c] = "context"
    /\ eb_self' = [eb_self EXCEPT !.context = c]
    /\ eb_pc' = [eb_pc EXCEPT ![c] = "page"]
    /\ UNCHANGED <<eb_started, eb_got, eb_stealth>>

\* line 208 resumes, up to the await of page.route in
\* _setup_resource_blocking (lines 211, 309)
PageCreated(c) ==
    /\ eb_pc[c] = "page"
    /\ eb_self' = [eb_self EXCEPT !.page = c]
    /\ eb_pc' = [eb_pc EXCEPT ![c] = "blocking"]
    /\ UNCHANGED <<eb_started, eb_got, eb_stealth>>

\* lines 211-225 and 104: after the resource blocking, either the await of
\* the stealth function or the end of _start_browser and "return self._page"
ResourceBlockingDone(c) ==
    /\ eb_pc[c] = "blocking"
    /\ IF eb_stealth
       THEN /\ eb_pc' = [eb_pc EXCEPT ![c] = "stealth"]
            /\ UNCHANGED eb_got
       ELSE /\ eb_pc' = [eb_pc EXCEPT ![c] = "done"]
            /\ eb_got' = [eb_got EXCEPT ![c] = eb_self.page]
    /\ UNCHANGED <<eb_self, eb_started, eb_stealth>>

\* lines 221-225 and 104: the stealth await resumes, "return self._page"
StealthApplied(c) ==
    /\ eb_pc[c] = "stealth"
    /\ eb_pc' = [eb_pc EXCEPT ![c] = "done"]
    /\ eb_got' = [eb_got EXCEPT ![c] = eb_self.page]
    /\ UNCHANGED <<eb_self, eb_started, eb_stealth>>

EnsureBrowserStep ==
    \E c \in Callers :
        \/ EnsureBrowser(c)
        \/ PlaywrightStarted(c)
        \/ BrowserLaunched(c)
        \/ ContextCreated(c)
        \/ PageCreated(c)
        \/ ResourceBlockingDone(c)
        \/ StealthApplied(c)

vars == <<cartVars, rankVars, wfVars, navVars, fdVars, ccVars, baVars, estVars, itVars, prVars, scVars, ipVars, cxVars, tsVars, ffVars, pgVars, ssVars, oiVars, srVars, bkVars, ddVars, ebVars>>

CartNext == FindValidCartsCall /\ UNCHANGED <<rankVars, wfVars, navVars, fdVars, ccVars, baVars, estVars, itVars, prVars, scVars, ipVars, cxVars, tsVars, ffVars, pgVars, ssVars, oiVars, srVars, bkVars, ddVars, ebVars>>
CartStart == CartInit /\ RankIdle /\ WorkflowIdle /\ NavIdle /\ FdIdle /\ ConcIdle /\ BestIdle /\ EstIdle /\ ItemIdle /\ PriceIdle /\ ScoreIdle /\ InterpIdle /\ ContextIdle /\ TryIdle /\ FillIdle /\ PageIdle /\ ShotIdle /\ IpIdle /\ StepIdle /\ BlockIdle /\ DedupIdle /\ EnsureIdle
SpecCart == CartStart /\ [][CartNext]_vars

RankNext == RankCartsCall /\ UNCHANGED <<cartVars, wfVars, navVars, fdVars, ccVars, baVars, estVars, itVars, prVars, scVars, ipVars, cxVars, tsVars, ffVars, pgVars, ssVars, oiVars, srVars, bkVars, ddVars, ebVars>>
RankStart == RankInit /\ CartIdle /\ WorkflowIdle /\ NavIdle /\ FdIdle /\ ConcIdle /\ BestIdle /\ EstIdle /\ ItemIdle /\ PriceIdle /\ ScoreIdle /\ InterpIdle /\ ContextIdle /\ TryIdle /\ FillIdle /\ PageIdle /\ ShotIdle /\ IpIdle /\ StepIdle /\ BlockIdle /\ DedupIdle /\ EnsureIdle
SpecRank == RankStart /\ [][RankNext]_vars

WorkflowNext ==
    \/ ExecuteStep /\ UNCHANGED <<cartVars, rankVars, navVars, fdVars, ccVars, baVars, estVars, itVars, prVars, scVars, ipVars, cxVars, tsVars, ffVars, pgVars, ssVars, oiVars, srVars, bkVars, ddVars, ebVars>>
    \/ CompleteWorkflow /\ UNCHANGED <<cartVars, rankVars, navVars, fdVars, ccVars, baVars, estVars, itVars, prVars, scVars, ipVars, cxVars, tsVars, ffVars, pgVars, ssVars, oiVars, srVars, bkVars, ddVars, ebVars>>
WorkflowStart == WorkflowInit /\ CartIdle /\ RankIdle /\ NavIdle /\ FdIdle /\ ConcIdle /\ BestIdle /\ EstIdle /\ ItemIdle /\ PriceIdle /\ ScoreIdle /\ InterpIdle /\ ContextIdle /\ TryIdle /\ FillIdle /\ PageIdle /\ ShotIdle /\ IpIdle /\ StepIdle /\ BlockIdle /\ DedupIdle /\ EnsureIdle
SpecWorkflow == WorkflowStart /\ [][WorkflowNext]_vars

ResultNext ==
    \/ AddStepResult /\ UNCHANGED <<cartVars, rankVars, navVars, fdVars, ccVars, baVars, estVars, itVars, prVars, scVars, ipVars, cxVars, tsVars, ffVars, pgVars, ssVars, oiVars, srVars, bkVars, ddVars, ebVars>>
    \/ CompleteResult /\ UNCHANGED <<cartVars, rankVars, navVars, fdVars, ccVars, baVars, estVars, itVars, prVars, scVars, ipVars, cxVars, tsVars, ffVars, pgVars, ssVars, oiVars, srVars, bkVars, ddVars, ebVars>>
ResultStart == ResultInit /\ CartIdle /\ RankIdle /\ NavIdle /\ FdIdle /\ ConcIdle /\ BestIdle /\ EstIdle /\ ItemIdle /\ PriceIdle /\ ScoreIdle /\ InterpIdle /\ ContextIdle /\ TryIdle /\ FillIdle /\ PageIdle /\ ShotIdle /\ IpIdle /\ StepIdle /\ BlockIdle /\ DedupIdle /\ EnsureIdle
SpecResult == ResultStart /\ [][ResultNext]_vars

NavNext ==
    \/ NavigateCall /\ UNCHANGED <<cartVars, rankVars, wfVars, fdVars, ccVars, baVars, estVars, itVars, prVars, scVars, ipVars, cxVars, tsVars, ffVars, pgVars, ssVars, oiVars, srVars, bkVars, ddVars, ebVars>>
    \/ CreateFreshContext /\ UNCHANGED <<cartVars, rankVars, wfVars, fdVars, ccVars, baVars, estVars, itVars, prVars, scVars, ipVars, cxVars, tsVars, ffVars, pgVars, ssVars, oiVars, srVars, bkVars, ddVars, ebVars>>
    \/ CreateFreshContextFails /\ UNCHANGED <<cartVars, rankVars, wfVars, fdVars, ccVars, baVars, estVars, itVars, prVars, scVars, ipVars, cxVars, tsVars, ffVars, pgVars, ssVars, oiVars, srVars, bkVars, ddVars, ebVars>>
    \/ EnsureBrowserHasPage /\ UNCHANGED <<cartVars, rankVars, wfVars, fdVars, ccVars, baVars, estVars, itVars, prVars, scVars, ipVars, cxVars, tsVars, ffVars, pgVars, ssVars, oiVars, srVars, bkVars, ddVars, ebVars>>
    \/ StartBrowser /\ UNCHANGED <<cartVars, rankVars, wfVars, fdVars, ccVars, baVars, estVars, itVars, prVars, scVars, ipVars, cxVars, tsVars, ffVars, pgVars, ssVars, oiVars, srVars, bkVars, ddVars, ebVars>>
    \/ StartBrowserFails /\ UNCHANGED <<cartVars, rankVars, wfVars, fdVars, ccVars, baVars, estVars, itVars, prVars, scVars, ipVars, cxVars, tsVars, ffVars, pgVars, ssVars, oiVars, srVars, bkVars, ddVars, ebVars>>
    \/ PageGotoAndProbe /\ UNCHANGED <<cartVars, rankVars, wfVars, fdVars, ccVars, baVars, estVars, itVars, prVars, scVars, ipVars, cxVars, tsVars, ffVars, pgVars, ssVars, oiVars, srVars, bkVars, ddVars, ebVars>>
    \/ PageGotoRaises /\ UNCHANGED <<cartVars, rankVars, wfVars, fdVars, ccVars, baVars, estVars, itVars, prVars, scVars, ipVars, cxVars, tsVars, ffVars, pgVars, ssVars, oiVars, srVars, bkVars, ddVars, ebVars>>
    \/ DismissCookiesAndReturn /\ UNCHANGED <<cartVars, rankVars, wfVars, fdVars, ccVars, baVars, estVars, itVars, prVars, scVars, ipVars, cxVars, tsVars, ffVars, pgVars, ssVars, oiVars, srVars, bkVars, ddVars, ebVars>>
    \/ ReturnFailure /\ UNCHANGED <<cartVars, rankVars, wfVars, fdVars, ccVars, baVars, estVars, itVars, prVars, scVars, ipVars, cxVars, tsVars, ffVars, pgVars, ssVars, oiVars, srVars, bkVars, ddVars, ebVars>>
NavStart == NavInit /\ CartIdle /\ RankIdle /\ WorkflowIdle /\ FdIdle /\ ConcIdle /\ BestIdle /\ EstIdle /\ ItemIdle /\ PriceIdle /\ ScoreIdle /\ InterpIdle /\ ContextIdle /\ TryIdle /\ FillIdle /\ PageIdle /\ ShotIdle /\ IpIdle /\ StepIdle /\ BlockIdle /\ DedupIdle /\ EnsureIdle
SpecNav == NavStart /\ [][NavNext]_vars

\* the event loop keeps running a navigate call that can take a step; a new
\* call is up to the caller
FairSpecNav ==
    SpecNav /\ WF_vars((NavStep /\ ~NavigateCall) /\ UNCHANGED <<cartVars, rankVars, wfVars, fdVars, ccVars, baVars, estVars, itVars, prVars, scVars, ipVars, cxVars, tsVars, ffVars, pgVars, ssVars, oiVars, srVars, bkVars, ddVars, ebVars>>)

DeliveryNext ==
    \/ SetupLocation /\ UNCHANGED <<cartVars, rankVars, wfVars, navVars, ccVars, baVars, estVars, itVars, prVars, scVars, ipVars, cxVars, tsVars, ffVars, pgVars, ssVars, oiVars, srVars, bkVars, ddVars, ebVars>>
    \/ SearchRestaurants /\ UNCHANGED <<cartVars, rankVars, wfVars, navVars, ccVars, baVars, estVars, itVars, prVars, scVars, ipVars, cxVars, tsVars, ffVars, pgVars, ssVars, oiVars, srVars, bkVars, ddVars, ebVars>>
    \/ ExtractRestaurants /\ UNCHANGED <<cartVars, rankVars, wfVars, navVars, ccVars, baVars, estVars, itVars, prVars, scVars, ipVars, cxVars, tsVars, ffVars, pgVars, ssVars, oiVars, srVars, bkVars, ddVars, ebVars>>
    \/ ExtractRaises /\ UNCHANGED <<cartVars, rankVars, wfVars, navVars, ccVars, baVars, estVars, itVars, prVars, scVars, ipVars, cxVars, tsVars, ffVars, pgVars, ssVars, oiVars, srVars, bkVars, ddVars, ebVars>>
    \/ ProcessCarts /\ UNCHANGED <<cartVars, rankVars, wfVars, navVars, ccVars, baVars, estVars, itVars, prVars, scVars, ipVars, cxVars, tsVars, ffVars, pgVars, ssVars, oiVars, srVars, bkVars, ddVars, ebVars>>
DeliveryStart == FdInit /\ CartIdle /\ RankIdle /\ WorkflowIdle /\ NavIdle /\ ConcIdle /\ BestIdle /\ EstIdle /\ ItemIdle /\ PriceIdle /\ ScoreIdle /\ InterpIdle /\ ContextIdle /\ TryIdle /\ FillIdle /\ PageIdle /\ ShotIdle /\ IpIdle /\ StepIdle /\ BlockIdle /\ DedupIdle /\ EnsureIdle
SpecDelivery == DeliveryStart /\ [][DeliveryNext]_vars

ConcNext ==
    \/ StartRun /\ UNCHANGED <<cartVars, rankVars, wfVars, navVars, fdVars, baVars, estVars, itVars, prVars, scVars, ipVars, cxVars, tsVars, ffVars, pgVars, ssVars, oiVars, srVars, bkVars, ddVars, ebVars>>
    \/ PageOp /\ UNCHANGED <<cartVars, rankVars, wfVars, navVars, fdVars, baVars, estVars, itVars, prVars, scVars, ipVars, cxVars, tsVars, ffVars, pgVars, ssVars, oiVars, srVars, bkVars, ddVars, ebVars>>
    \/ NavigateFirst /\ UNCHANGED <<cartVars, rankVars, wfVars, navVars, fdVars, baVars, estVars, itVars, prVars, scVars, ipVars, cxVars, tsVars, ffVars, pgVars, ssVars, oiVars, srVars, bkVars, ddVars, ebVars>>
    \/ NavigateRetry /\ UNCHANGED <<cartVars, rankVars, wfVars, navVars, fdVars, baVars, estVars, itVars, prVars, scVars, ipVars, cxVars, tsVars, ffVars, pgVars, ssVars, oiVars, srVars, bkVars, ddVars, ebVars>>
    \/ FinishRun /\ UNCHANGED <<cartVars, rankVars, wfVars, navVars, fdVars, baVars, estVars, itVars, prVars, scVars, ipVars, cxVars, tsVars, ffVars, pgVars, ssVars, oiVars, srVars, bkVars, ddVars, ebVars>>
ConcStart == ConcInit /\ CartIdle /\ RankIdle /\ WorkflowIdle /\ NavIdle /\ FdIdle /\ BestIdle /\ EstIdle /\ ItemIdle /\ PriceIdle /\ ScoreIdle /\ InterpIdle /\ ContextIdle /\ TryIdle /\ FillIdle /\ PageIdle /\ ShotIdle /\ IpIdle /\ StepIdle /\ BlockIdle /\ DedupIdle /\ EnsureIdle
SpecConc == ConcStart /\ [][ConcNext]_vars

TieNext == RankCartsCall /\ UNCHANGED <<cartVars, wfVars, navVars, fdVars, ccVars, baVars, estVars, itVars, prVars, scVars, ipVars, cxVars, tsVars, ffVars, pgVars, ssVars, oiVars, srVars, bkVars, ddVars, ebVars>>
TieStart == TieInit /\ CartIdle /\ WorkflowIdle /\ NavIdle /\ FdIdle /\ ConcIdle /\ BestIdle /\ EstIdle /\ ItemIdle /\ PriceIdle /\ ScoreIdle /\ InterpIdle /\ ContextIdle /\ TryIdle /\ FillIdle /\ PageIdle /\ ShotIdle /\ IpIdle /\ StepIdle /\ BlockIdle /\ DedupIdle /\ EnsureIdle
SpecTie == TieStart /\ [][TieNext]_vars

BestNext == FindBestAttemptCall /\ UNCHANGED <<cartVars, rankVars, wfVars, navVars, fdVars, ccVars, estVars, itVars, prVars, scVars, ipVars, cxVars, tsVars, ffVars, pgVars, ssVars, oiVars, srVars, bkVars, ddVars, ebVars>>
BestStart == BestInit /\ CartIdle /\ RankIdle /\ WorkflowIdle /\ NavIdle /\ FdIdle /\ ConcIdle /\ EstIdle /\ ItemIdle /\ PriceIdle /\ ScoreIdle /\ InterpIdle /\ ContextIdle /\ TryIdle /\ FillIdle /\ PageIdle /\ ShotIdle /\ IpIdle /\ StepIdle /\ BlockIdle /\ DedupIdle /\ EnsureIdle
SpecBest == BestStart /\ [][BestNext]_vars

EstNext ==
    \/ EstimateCall /\ UNCHANGED <<cartVars, rankVars, wfVars, navVars, fdVars, ccVars, baVars, itVars, prVars, scVars, ipVars, cxVars, tsVars, ffVars, pgVars, ssVars, oiVars, srVars, bkVars, ddVars, ebVars>>
    \/ EstimateWithModifier /\ UNCHANGED <<cartVars, rankVars, wfVars, navVars, fdVars, ccVars, baVars, itVars, prVars, scVars, ipVars, cxVars, tsVars, ffVars, pgVars, ssVars, oiVars, srVars, bkVars, ddVars, ebVars>>
EstStart == EstInit /\ CartIdle /\ RankIdle /\ WorkflowIdle /\ NavIdle /\ FdIdle /\ ConcIdle /\ BestIdle /\ ItemIdle /\ PriceIdle /\ ScoreIdle /\ InterpIdle /\ ContextIdle /\ TryIdle /\ FillIdle /\ PageIdle /\ ShotIdle /\ IpIdle /\ StepIdle /\ BlockIdle /\ DedupIdle /\ EnsureIdle
SpecEst == EstStart /\ [][EstNext]_vars

ItemNext ==
    \/ ProcessExtractedItems /\ UNCHANGED <<cartVars, rankVars, wfVars, navVars, fdVars, ccVars, baVars, estVars, prVars, scVars, ipVars, cxVars, tsVars, ffVars, pgVars, ssVars, oiVars, srVars, bkVars, ddVars, ebVars>>
    \/ AssembleCarts /\ UNCHANGED <<cartVars, rankVars, wfVars, navVars, fdVars, ccVars, baVars, estVars, prVars, scVars, ipVars, cxVars, tsVars, ffVars, pgVars, ssVars, oiVars, srVars, bkVars, ddVars, ebVars>>
ItemStart == ItemInit /\ CartIdle /\ RankIdle /\ WorkflowIdle /\ NavIdle /\ FdIdle /\ ConcIdle /\ BestIdle /\ EstIdle /\ PriceIdle /\ ScoreIdle /\ InterpIdle /\ ContextIdle /\ TryIdle /\ FillIdle /\ PageIdle /\ ShotIdle /\ IpIdle /\ StepIdle /\ BlockIdle /\ DedupIdle /\ EnsureIdle
SpecItem == ItemStart /\ [][ItemNext]_vars

PriceNext == ParsePriceCall /\ UNCHANGED <<cartVars, rankVars, wfVars, navVars, fdVars, ccVars, baVars, estVars, itVars, scVars, ipVars, cxVars, tsVars, ffVars, pgVars, ssVars, oiVars, srVars, bkVars, ddVars, ebVars>>
PriceStart == PriceInit /\ CartIdle /\ RankIdle /\ WorkflowIdle /\ NavIdle /\ FdIdle /\ ConcIdle /\ BestIdle /\ EstIdle /\ ItemIdle /\ ScoreIdle /\ InterpIdle /\ ContextIdle /\ TryIdle /\ FillIdle /\ PageIdle /\ ShotIdle /\ IpIdle /\ StepIdle /\ BlockIdle /\ DedupIdle /\ EnsureIdle
SpecPrice == PriceStart /\ [][PriceNext]_vars

ScoreNext == ScoreCartCalls /\ UNCHANGED <<cartVars, rankVars, wfVars, navVars, fdVars, ccVars, baVars, estVars, itVars, prVars, ipVars, cxVars, tsVars, ffVars, pgVars, ssVars, oiVars, srVars, bkVars, ddVars, ebVars>>
ScoreStart == ScoreInit /\ CartIdle /\ RankIdle /\ WorkflowIdle /\ NavIdle /\ FdIdle /\ ConcIdle /\ BestIdle /\ EstIdle /\ ItemIdle /\ PriceIdle /\ InterpIdle /\ ContextIdle /\ TryIdle /\ FillIdle /\ PageIdle /\ ShotIdle /\ IpIdle /\ StepIdle /\ BlockIdle /\ DedupIdle /\ EnsureIdle
SpecScore == ScoreStart /\ [][ScoreNext]_vars

InterpNext == InterpolateStep /\ UNCHANGED <<cartVars, rankVars, wfVars, navVars, fdVars, ccVars, baVars, estVars, itVars, prVars, scVars, cxVars, tsVars, ffVars, pgVars, ssVars, oiVars, srVars, bkVars, ddVars, ebVars>>
InterpStart == InterpInit /\ CartIdle /\ RankIdle /\ WorkflowIdle /\ NavIdle /\ FdIdle /\ ConcIdle /\ BestIdle /\ EstIdle /\ ItemIdle /\ PriceIdle /\ ScoreIdle /\ ContextIdle /\ TryIdle /\ FillIdle /\ PageIdle /\ ShotIdle /\ IpIdle /\ StepIdle /\ BlockIdle /\ DedupIdle /\ EnsureIdle
SpecInterp == InterpStart /\ [][InterpNext]_vars

ContextNext ==
    \/ StartWorkflow /\ UNCHANGED <<cartVars, rankVars, wfVars, navVars, fdVars, ccVars, baVars, estVars, itVars, prVars, scVars, ipVars, tsVars, ffVars, pgVars, ssVars, oiVars, srVars, bkVars, ddVars, ebVars>>
    \/ ExecuteExtractStep /\ UNCHANGED <<cartVars, rankVars, wfVars, navVars, fdVars, ccVars, baVars, estVars, itVars, prVars, scVars, ipVars, tsVars, ffVars, pgVars, ssVars, oiVars, srVars, bkVars, ddVars, ebVars>>
    \/ ExecuteLoopUrlsStep /\ UNCHANGED <<cartVars, rankVars, wfVars, navVars, fdVars, ccVars, baVars, estVars, itVars, prVars, scVars, ipVars, tsVars, ffVars, pgVars, ssVars, oiVars, srVars, bkVars, ddVars, ebVars>>
    \/ ExecuteLoopJobsStep /\ UNCHANGED <<cartVars, rankVars, wfVars, navVars, fdVars, ccVars, baVars, estVars, itVars, prVars, scVars, ipVars, tsVars, ffVars, pgVars, ssVars, oiVars, srVars, bkVars, ddVars, ebVars>>
    \/ FinishWorkflow /\ UNCHANGED <<cartVars, rankVars, wfVars, navVars, fdVars, ccVars, baVars, estVars, itVars, prVars, scVars, ipVars, tsVars, ffVars, pgVars, ssVars, oiVars, srVars, bkVars, ddVars, ebVars>>
ContextStart == ContextInit /\ CartIdle /\ RankIdle /\ WorkflowIdle /\ NavIdle /\ FdIdle /\ ConcIdle /\ BestIdle /\ EstIdle /\ ItemIdle /\ PriceIdle /\ ScoreIdle /\ InterpIdle /\ TryIdle /\ FillIdle /\ PageIdle /\ ShotIdle /\ IpIdle /\ StepIdle /\ BlockIdle /\ DedupIdle /\ EnsureIdle
SpecContext == ContextStart /\ [][ContextNext]_vars

TryNext == TrySelectorsCall /\ UNCHANGED <<cartVars, rankVars, wfVars, navVars, fdVars, ccVars, baVars, estVars, itVars, prVars, scVars, ipVars, cxVars, ffVars, pgVars, ssVars, oiVars, srVars, bkVars, ddVars, ebVars>>
TryStart == TryInit /\ CartIdle /\ RankIdle /\ WorkflowIdle /\ NavIdle /\ FdIdle /\ ConcIdle /\ BestIdle /\ EstIdle /\ ItemIdle /\ PriceIdle /\ ScoreIdle /\ InterpIdle /\ ContextIdle /\ FillIdle /\ PageIdle /\ ShotIdle /\ IpIdle /\ StepIdle /\ BlockIdle /\ DedupIdle /\ EnsureIdle
SpecTry == TryStart /\ [][TryNext]_vars

FillNext == ExecuteFillFormStep /\ UNCHANGED <<cartVars, rankVars, wfVars, navVars, fdVars, ccVars, baVars, estVars, itVars, prVars, scVars, ipVars, cxVars, tsVars, pgVars, ssVars, oiVars, srVars, bkVars, ddVars, ebVars>>
FillStart == FillInit /\ CartIdle /\ RankIdle /\ WorkflowIdle /\ NavIdle /\ FdIdle /\ ConcIdle /\ BestIdle /\ EstIdle /\ ItemIdle /\ PriceIdle /\ ScoreIdle /\ InterpIdle /\ ContextIdle /\ TryIdle /\ PageIdle /\ ShotIdle /\ IpIdle /\ StepIdle /\ BlockIdle /\ DedupIdle /\ EnsureIdle
SpecFill == FillStart /\ [][FillNext]_vars

PageNext ==
    \/ DetectPageStateCall /\ UNCHANGED <<cartVars, rankVars, wfVars, navVars, fdVars, ccVars, baVars, estVars, itVars, prVars, scVars, ipVars, cxVars, tsVars, ffVars, ssVars, oiVars, srVars, bkVars, ddVars, ebVars>>
    \/ ReturnPageStateFailure /\ UNCHANGED <<cartVars, rankVars, wfVars, navVars, fdVars, ccVars, baVars, estVars, itVars, prVars, scVars, ipVars, cxVars, tsVars, ffVars, ssVars, oiVars, srVars, bkVars, ddVars, ebVars>>
PageStart == PageInit /\ CartIdle /\ RankIdle /\ WorkflowIdle /\ NavIdle /\ FdIdle /\ ConcIdle /\ BestIdle /\ EstIdle /\ ItemIdle /\ PriceIdle /\ ScoreIdle /\ InterpIdle /\ ContextIdle /\ TryIdle /\ FillIdle /\ ShotIdle /\ IpIdle /\ StepIdle /\ BlockIdle /\ DedupIdle /\ EnsureIdle
SpecPage == PageStart /\ [][PageNext]_vars

ShotNext == ScreenshotCall /\ UNCHANGED <<cartVars, rankVars, wfVars, navVars, fdVars, ccVars, baVars, estVars, itVars, prVars, scVars, ipVars, cxVars, tsVars, ffVars, pgVars, oiVars, srVars, bkVars, ddVars, ebVars>>
ShotStart == ShotInit /\ CartIdle /\ RankIdle /\ WorkflowIdle /\ NavIdle /\ FdIdle /\ ConcIdle /\ BestIdle /\ EstIdle /\ ItemIdle /\ PriceIdle /\ ScoreIdle /\ InterpIdle /\ ContextIdle /\ TryIdle /\ FillIdle /\ PageIdle /\ IpIdle /\ StepIdle /\ BlockIdle /\ DedupIdle /\ EnsureIdle
SpecShot == ShotStart /\ [][ShotNext]_vars

IpNext ==
    \/ VerifyOutboundIp /\ UNCHANGED <<cartVars, rankVars, wfVars, navVars, fdVars, ccVars, baVars, estVars, itVars, prVars, scVars, ipVars, cxVars, tsVars, ffVars, pgVars, ssVars, srVars, bkVars, ddVars, ebVars>>
    \/ NavigateToTarget /\ UNCHANGED <<cartVars, rankVars, wfVars, navVars, fdVars, ccVars, baVars, estVars, itVars, prVars, scVars, ipVars, cxVars, tsVars, ffVars, pgVars, ssVars, srVars, bkVars, ddVars, ebVars>>
    \/ FinishSetupAndSearch /\ UNCHANGED <<cartVars, rankVars, wfVars, navVars, fdVars, ccVars, baVars, estVars, itVars, prVars, scVars, ipVars, cxVars, tsVars, ffVars, pgVars, ssVars, srVars, bkVars, ddVars, ebVars>>
    \/ ScanRestaurant /\ UNCHANGED <<cartVars, rankVars, wfVars, navVars, fdVars, ccVars, baVars, estVars, itVars, prVars, scVars, ipVars, cxVars, tsVars, ffVars, pgVars, ssVars, srVars, bkVars, ddVars, ebVars>>
    \/ FinishScan /\ UNCHANGED <<cartVars, rankVars, wfVars, navVars, fdVars, ccVars, baVars, estVars, itVars, prVars, scVars, ipVars, cxVars, tsVars, ffVars, pgVars, ssVars, srVars, bkVars, ddVars, ebVars>>
IpStart == IpInit /\ CartIdle /\ RankIdle /\ WorkflowIdle /\ NavIdle /\ FdIdle /\ ConcIdle /\ BestIdle /\ EstIdle /\ ItemIdle /\ PriceIdle /\ ScoreIdle /\ InterpIdle /\ ContextIdle /\ TryIdle /\ FillIdle /\ PageIdle /\ ShotIdle /\ StepIdle /\ BlockIdle /\ DedupIdle /\ EnsureIdle
SpecIp == IpStart /\ [][IpNext]_vars

LargeNext == FindValidCartsCall /\ UNCHANGED <<rankVars, wfVars, navVars, fdVars, ccVars, baVars, estVars, itVars, prVars, scVars, ipVars, cxVars, tsVars, ffVars, pgVars, ssVars, oiVars, srVars, bkVars, ddVars, ebVars>>
LargeStart == LargeMenuInit /\ RankIdle /\ WorkflowIdle /\ NavIdle /\ FdIdle /\ ConcIdle /\ BestIdle /\ EstIdle /\ ItemIdle /\ PriceIdle /\ ScoreIdle /\ InterpIdle /\ ContextIdle /\ TryIdle /\ FillIdle /\ PageIdle /\ ShotIdle /\ IpIdle /\ StepIdle /\ BlockIdle /\ DedupIdle /\ EnsureIdle
SpecLarge == LargeStart /\ [][LargeNext]_vars

StepNext == ExecuteOneStep /\ UNCHANGED <<cartVars, rankVars, wfVars, navVars, fdVars, ccVars, baVars, estVars, itVars, prVars, scVars, ipVars, cxVars, tsVars, ffVars, pgVars, ssVars, oiVars, bkVars, ddVars, ebVars>>
StepStart == StepInit /\ CartIdle /\ RankIdle /\ WorkflowIdle /\ NavIdle /\ FdIdle /\ ConcIdle /\ BestIdle /\ EstIdle /\ ItemIdle /\ PriceIdle /\ ScoreIdle /\ InterpIdle /\ ContextIdle /\ TryIdle /\ FillIdle /\ PageIdle /\ ShotIdle /\ IpIdle /\ BlockIdle /\ DedupIdle /\ EnsureIdle
SpecStep == StepStart /\ [][StepNext]_vars

BlockNext == ExecuteBlockStep /\ UNCHANGED <<cartVars, rankVars, wfVars, navVars, fdVars, ccVars, baVars, estVars, itVars, prVars, scVars, ipVars, cxVars, tsVars, ffVars, pgVars, ssVars, oiVars, srVars, ddVars, ebVars>>
BlockStart == BlockInit /\ CartIdle /\ RankIdle /\ WorkflowIdle /\ NavIdle /\ FdIdle /\ ConcIdle /\ BestIdle /\ EstIdle /\ ItemIdle /\ PriceIdle /\ ScoreIdle /\ InterpIdle /\ ContextIdle /\ TryIdle /\ FillIdle /\ PageIdle /\ ShotIdle /\ IpIdle /\ StepIdle /\ DedupIdle /\ EnsureIdle
SpecBlock == BlockStart /\ [][BlockNext]_vars

ShortfallNext == ProcessCarts /\ UNCHANGED <<cartVars, rankVars, wfVars, navVars, ccVars, baVars, estVars, itVars, prVars, scVars, ipVars, cxVars, tsVars, ffVars, pgVars, ssVars, oiVars, srVars, bkVars, ddVars, ebVars>>
ShortfallStart == ShortfallInit /\ CartIdle /\ RankIdle /\ WorkflowIdle /\ NavIdle /\ ConcIdle /\ BestIdle /\ EstIdle /\ ItemIdle /\ PriceIdle /\ ScoreIdle /\ InterpIdle /\ ContextIdle /\ TryIdle /\ FillIdle /\ PageIdle /\ ShotIdle /\ IpIdle /\ StepIdle /\ BlockIdle /\ DedupIdle /\ EnsureIdle
SpecShortfall == ShortfallStart /\ [][ShortfallNext]_vars

DedupNext ==
    \/ ExtractPages /\ UNCHANGED <<cartVars, rankVars, wfVars, navVars, fdVars, ccVars, baVars, estVars, itVars, prVars, scVars, ipVars, cxVars, tsVars, ffVars, pgVars, ssVars, oiVars, srVars, bkVars, ebVars>>
    \/ RankExtracted /\ UNCHANGED <<cartVars, rankVars, wfVars, navVars, fdVars, ccVars, baVars, estVars, itVars, prVars, scVars, ipVars, cxVars, tsVars, ffVars, pgVars, ssVars, oiVars, srVars, bkVars, ebVars>>
DedupStart == DedupInit /\ CartIdle /\ RankIdle /\ WorkflowIdle /\ NavIdle /\ FdIdle /\ ConcIdle /\ BestIdle /\ EstIdle /\ ItemIdle /\ PriceIdle /\ ScoreIdle /\ InterpIdle /\ ContextIdle /\ TryIdle /\ FillIdle /\ PageIdle /\ ShotIdle /\ IpIdle /\ StepIdle /\ BlockIdle /\ EnsureIdle
SpecDedup == DedupStart /\ [][DedupNext]_vars

AgainNext ==
    \/ ProcessExtractedItems /\ UNCHANGED <<cartVars, rankVars, wfVars, navVars, fdVars, ccVars, baVars, estVars, prVars, scVars, ipVars, cxVars, tsVars, ffVars, pgVars, ssVars, oiVars, srVars, bkVars, ddVars, ebVars>>
    \/ ProcessAgain /\ UNCHANGED <<cartVars, rankVars, wfVars, navVars, fdVars, ccVars, baVars, estVars, prVars, scVars, ipVars, cxVars, tsVars, ffVars, pgVars, ssVars, oiVars, srVars, bkVars, ddVars, ebVars>>
AgainStart == ItemInit /\ CartIdle /\ RankIdle /\ WorkflowIdle /\ NavIdle /\ FdIdle /\ ConcIdle /\ BestIdle /\ EstIdle /\ PriceIdle /\ ScoreIdle /\ InterpIdle /\ ContextIdle /\ TryIdle /\ FillIdle /\ PageIdle /\ ShotIdle /\ IpIdle /\ StepIdle /\ BlockIdle /\ DedupIdle /\ EnsureIdle
SpecAgain == AgainStart /\ [][AgainNext]_vars

EnsureNext == EnsureBrowserStep /\ UNCHANGED <<cartVars, rankVars, wfVars, navVars, fdVars, ccVars, baVars, estVars, itVars, prVars, scVars, ipVars, cxVars, tsVars, ffVars, pgVars, ssVars, oiVars, srVars, bkVars, ddVars>>
EnsureStart == EnsureInit /\ CartIdle /\ RankIdle /\ WorkflowIdle /\ NavIdle /\ FdIdle /\ ConcIdle /\ BestIdle /\ EstIdle /\ ItemIdle /\ PriceIdle /\ ScoreIdle /\ InterpIdle /\ ContextIdle /\ TryIdle /\ FillIdle /\ PageIdle /\ ShotIdle /\ IpIdle /\ StepIdle /\ BlockIdle /\ DedupIdle
SpecEnsure == EnsureStart /\ [][EnsureNext]_vars

(***************************************************************************)
(* Claims about cart assembly                                              *)
(***************************************************************************)
\* totals of a cart recomputed from its items
ItemsPrice(cart) == SumSeq([i \in 1..Len(cart.cart_items) |-> cart.cart_items[i].price])
ItemsProtein(cart) == SumSeq([i \in 1..Len(cart.cart_items) |-> cart.cart_items[i].protein_grams])

\* C1: every cart returned by find_valid_carts, enumerated or greedy, has
\* total protein >= min_protein and total price strictly below max_price.
C1_CartsMeetConstraints ==
    cartPhase = "done" =>
        \A k \in 1..Len(valid_carts) :
            /\ valid_carts[k].total_protein_grams >= min_protein
            /\ valid_carts[k].total_price < max_price
            /\ ItemsProtein(valid_carts[k]) >= min_protein
            /\ ItemsPrice(valid_carts[k]) < max_price

\* a call that returned an enumerated three-item cart and a greedy cart of
\* four items
C1_Witness ==
    /\ cartPhase = "done"
    /\ \A n \in 3..4 : \E k \in 1..Len(valid_carts) : Len(valid_carts[k].cart_items) = n

RECURSIVE SumOver(_, _)
SumOver(S, f) ==
    IF S = {} THEN 0
    ELSE LET x == CHOOSE y \in S : TRUE IN f[x] + SumOver(S \ {x}, f)

\* the eligible items and the index sets of 1..3 of them meeting both constraints
Eligible == eligible_items(restaurant)
SetProtein(S) == SumOver(S, [i \in 1..Len(Eligible) |-> ProteinOrZero(Eligible[i])])
SetPrice(S) == SumOver(S, [i \in 1..Len(Eligible) |-> Eligible[i].price])
Qualifies(S) == SetProtein(S) >= min_protein /\ SetPrice(S) < max_price
ValidSets ==
    {S \in SUBSET (1..Len(Eligible)) : Cardinality(S) \in 1..3 /\ Qualifies(S)}

\* cart c holds exactly the items of index set S (as a multiset of item values)
CartIsSet(c, S) ==
    /\ Len(c.cart_items) = Cardinality(S)
    /\ \A v \in Range(c.cart_items) \cup {CartItemOf(Eligible[i]) : i \in S} :
          Cardinality({j \in 1..Len(c.cart_items) : c.cart_items[j] = v})
            = Cardinality({i \in S : CartItemOf(Eligible[i]) = v})
SameItems(S, T) ==
    /\ Cardinality(S) = Cardinality(T)
    /\ \A i \in S : Cardinality({j \in S : CartItemOf(Eligible[j]) = CartItemOf(Eligible[i])})
                  = Cardinality({j \in T : CartItemOf(Eligible[j]) = CartItemOf(Eligible[i])})

C5_AtMostThreeDistinct ==
    rankCalls > 0 =>
        /\ Len(ranked) <= 3
        /\ \A i, j \in 1..Len(ranked) :
              i # j => ranked[i].restaurant # ranked[j].restaurant

\* a call on four candidates, two of them of one restaurant, that returned
\* three results
C5_Witness ==
    /\ rankCalls > 0
    /\ Len(candidates) = 4
    /\ \E i, j \in 1..Len(candidates) :
          i # j /\ candidates[i].restaurant = candidates[j].restaurant
    /\ Len(ranked) = 3

\* the candidates as they were before any rank_carts call stored a score
Unscored(carts) == [i \in 1..Len(carts) |-> [carts[i] EXCEPT !.score = 0]]

\* C6: rank_carts is deterministic: a call returns the same ordered results,
\* scores and reason text as the first call with the same constraints on the
\* same candidates, and as a call on candidates that were never ranked.
C6_RankDeterministic ==
    rankCalls > 0 =>
        /\ firstResult[<<rank_min, rank_max>>].set
        /\ ranked = firstResult[<<rank_min, rank_max>>].res
        /\ ranked = rank_carts(ScoreAll(Unscored(candidates), rank_min, rank_max),
                               rank_min, rank_max, top_n)

\* the same candidate objects, holding the scores of a first call, ranked a
\* second time with the same constraints
C6_Witness ==
    /\ rankCalls = 2
    /\ Cardinality({a \in RankConstraintChoices : firstResult[a].set}) = 1
    /\ Len(ranked) >= 2
    /\ ranked[1].score # ranked[2].score

(***************************************************************************)
(* Claims about the workflow executor                                      *)
(***************************************************************************)
FailedGoto(sr) == sr.action = "goto" /\ sr.status = "failed"

\* C2: a failed goto step is the last StepResult recorded: no step after it is
\* executed or recorded and the run is unsuccessful; a 3-step run whose step 0
\* is a failing goto ends with exactly one StepResult, status failed.
C2_FailedGotoIsLast ==
    /\ \A k \in 1..Len(wf_result.steps) :
          FailedGoto(wf_result.steps[k]) =>
              /\ k = Len(wf_result.steps)
              /\ Len(wf_executed) = k
              /\ ~wf_result.success
    /\ (/\ wf_pc = "done"
        /\ Len(wf_steps) = 3
        /\ Len(wf_result.steps) >= 1
        /\ FailedGoto(wf_result.steps[1]))
          => /\ Len(wf_result.steps) = 1
             /\ wf_executed = <<0>>
             /\ ~wf_result.success

\* a finished 3-step run whose step 0 was a goto that failed
C2_Witness ==
    /\ wf_pc = "done"
    /\ Len(wf_steps) = 3
    /\ wf_steps[1].action = "goto"
    /\ wf_steps[1].has_url
    /\ Len(wf_result.steps) = 1
    /\ wf_result.steps[1].status = "failed"

\* C8: in a run in which no goto step fails, every step is executed exactly
\* once in list order and one StepResult is recorded per step, with
\* step_number equal to its index, whatever the other steps' outcomes.
C8_AllStepsRecorded ==
    /\ wf_executed = [k \in 1..Len(wf_executed) |-> k - 1]
    /\ Len(wf_result.steps) = Len(wf_executed)
    /\ \A k \in 1..Len(wf_result.steps) :
          /\ wf_result.steps[k].step_number = k - 1
          /\ wf_result.steps[k].action = wf_steps[k].action
    /\ (/\ wf_pc = "done"
        /\ \A k \in 1..Len(wf_result.steps) : ~FailedGoto(wf_result.steps[k]))
          => /\ Len(wf_result.steps) = Len(wf_steps)
             /\ Len(wf_executed) = Len(wf_steps)

\* a finished run of three steps, none a goto, whose steps failed and were
\* all recorded
C8_Witness ==
    /\ wf_pc = "done"
    /\ Len(wf_steps) = 3
    /\ Len(wf_result.steps) = 3
    /\ wf_result.steps[1].status = "failed"

(***************************************************************************)
(* Claims about WorkflowResult                                             *)
(***************************************************************************)
\* C9: after any sequence of recorded steps the overall success flag is
\* false if and only if at least one recorded StepResult has status failed.
C9_SuccessIffNoFailure ==
    wf_result.success = FALSE
        <=> \E k \in 1..Len(wf_result.steps) : wf_result.steps[k].status = "failed"

\* a result holding a skipped step, then a failed one, then a successful one
C9_Witness ==
    /\ Len(wf_result.steps) = 3
    /\ wf_result.steps[1].status = "skipped"
    /\ wf_result.steps[2].status = "failed"
    /\ wf_result.steps[3].status = "success"
    /\ ~wf_result.success

(***************************************************************************)
(* Claims about PlaywrightRuntime.navigate                                 *)
(***************************************************************************)
\* the page of a load came up and holds one of the probed elements
LoadedAndReady(l) ==
    l.returned /\ l.found \cap {"body", "a", "button", "input", "[role]"} # {}

NavRunning == nav_pc \in {"iter", "goto", "cookies"}

\* C3: a navigate call makes at most three page-load attempts; it returns
\* success on the first attempt whose page loads and passes the readiness
\* probe, returns the failure result when three attempts have failed, and
\* every started call comes to an end.
C3_AtMostThreeLoads ==
    /\ [](Len(nav_loads) <= 3)
    /\ [](nav_attempt <= 3)
    /\ []((nav_pc = "done" /\ nav_return.success) =>
            LET loads == nav_loads IN
            /\ loads # <<>>
            /\ LoadedAndReady(loads[Len(loads)])
            /\ \A k \in 1..(Len(loads) - 1) : ~LoadedAndReady(loads[k])
            /\ nav_return.attempts = loads[Len(loads)].attempt + 1)
    /\ []((nav_pc = "done" /\ nav_return.kind = "returned"
             /\ \A k \in DOMAIN nav_loads : ~LoadedAndReady(nav_loads[k]))
            => (~nav_return.success /\ nav_return.attempts = 3))
    /\ [](NavRunning => <>(nav_pc = "done"))

\* a call that returned the failure result after three page loads
C3_Witness ==
    /\ nav_pc = "done"
    /\ nav_return.kind = "returned"
    /\ ~nav_return.success
    /\ Len(nav_loads) = 3

\* C4: every page load after the first attempt of a call runs in a context
\* and page created in that same attempt, used by no earlier load, also after
\* an attempt whose fresh-context creation failed.
C4_RetryUsesFreshContext ==
    \A i \in DOMAIN nav_loads :
        LET l == nav_loads[i] IN
        l.attempt > 0 =>
            /\ l.context # NoObject
            /\ l.page # NoObject
            /\ l.context.call = l.call /\ l.context.attempt = l.attempt
            /\ l.page.call = l.call /\ l.page.attempt = l.attempt
            /\ \A j \in 1..(i - 1) :
                  /\ nav_loads[j].context.id # l.context.id
                  /\ nav_loads[j].page.id # l.page.id

\* a call whose second attempt failed to create the context and whose third
\* attempt then loaded a page
C4_Witness ==
    LET loads == nav_loads IN
    /\ nav_calls > 0
    /\ \E k \in DOMAIN loads : loads[k].attempt = 2
    /\ \E k \in DOMAIN loads : loads[k].attempt = 0
    /\ \A k \in DOMAIN loads : loads[k].attempt # 1

\* C10: navigate reports success only for an attempt whose page loaded and
\* passed the readiness probe; an attempt whose page is not ready is followed
\* by a retry or by the final failure; once the page is ready the call
\* succeeds whether or not the cookie overlay could be dismissed.
C10_SuccessOnlyWhenReady ==
    LET loads == nav_loads IN
    /\ (nav_return.success \/ nav_pc = "cookies") =>
          /\ loads # <<>>
          /\ LoadedAndReady(loads[Len(loads)])
          /\ loads[Len(loads)].attempt = nav_attempt
    /\ (loads # <<>> /\ ~LoadedAndReady(loads[Len(loads)])) =>
          /\ ~nav_return.success
          /\ nav_attempt > loads[Len(loads)].attempt
          /\ nav_pc \in {"iter", "goto", "done"}
          /\ nav_pc = "done" => (nav_attempt = 3 /\ nav_return.kind = "returned")
    /\ (nav_pc = "done" /\ loads # <<>> /\ LoadedAndReady(loads[Len(loads)])) =>
          nav_return.success

\* a call that succeeded without dismissing a cookie overlay, after an
\* attempt whose page came up but was not ready
C10_Witness ==
    LET loads == nav_loads IN
    /\ nav_pc = "done"
    /\ nav_return.success
    /\ ~nav_return.cookie_dismissed
    /\ Len(loads) >= 2
    /\ loads[1].returned
    /\ ~LoadedAndReady(loads[1])

(***************************************************************************)
(* Claims about FoodDeliveryExecutor.execute                               *)
(***************************************************************************)
\* C11: execute never raises; what it returns has either a non-empty results
\* list and no failure_reason, or an empty results list and a failure_reason
\* of the FailureReason set.
C11_ExecuteAlwaysReturns ==
    /\ fd_pc # "raised"
    /\ fd_pc = "returned" =>
          /\ fd_output # <<>>
          /\ \/ fd_output[1].results # <<>> /\ fd_output[1].failure_reason = NoReason
             \/ fd_output[1].results = <<>> /\ fd_output[1].failure_reason \in FailureReason

\* a run that ended in phase A or B with unknown_error, as after an exception
C11_Witness ==
    /\ fd_pc = "returned"
    /\ fd_output[1].failure_reason = "unknown_error"
    /\ fd_restaurants = <<>>
    /\ fd_debug.blocked_at_step = FALSE

C12_ExclusiveSession ==
    cc_op # <<>> =>
        \A q \in Runs \ {cc_op[1].run} :
            cc_pc[q] = "running" => cc_using[q] \cap cc_op[1].touched = {}

(***************************************************************************)
(* Claims about the order of rank_carts                                    *)
(***************************************************************************)
\* the fraction of protein from actual sources of a ranked result
ResultRatio(res) ==
    <<SumSeq([k \in 1..Len(res.cart_items) |->
                 IF res.cart_items[k].protein_source = "actual"
                 THEN res.cart_items[k].protein_grams ELSE 0]),
      res.total_protein_grams>>

\* a goes before b by the chain: score, actual fraction, protein, price, ETA,
\* item count; two ETAs are compared when both are known
GoesBefore(a, b) ==
    \/ a.score > b.score
    \/ /\ a.score = b.score
       /\ \/ FracLess(ResultRatio(b), ResultRatio(a))
          \/ /\ ~FracLess(ResultRatio(a), ResultRatio(b))
             /\ \/ a.total_protein_grams > b.total_protein_grams
                \/ /\ a.total_protein_grams = b.total_protein_grams
                   /\ \/ a.total_price < b.total_price
                      \/ /\ a.total_price = b.total_price
                         /\ \/ /\ a.eta_minutes # None
                               /\ b.eta_minutes # None
                               /\ a.eta_minutes < b.eta_minutes
                            \/ /\ a.eta_minutes = b.eta_minutes
                               /\ Len(a.cart_items) < Len(b.cart_items)

\* C13: the results of rank_carts are in descending order of score, ties
\* broken by higher actual-protein fraction, higher protein, lower price,
\* faster ETA, fewer items, and carry the ranks 1, 2, ... in that order.
C13_RankOrder ==
    /\ \A i \in 1..Len(ranked) : ranked[i].rank = i
    /\ \A i, j \in 1..Len(ranked) : i < j => ~GoesBefore(ranked[j], ranked[i])

\* the restaurants that have a candidate
CandidateRestaurants == {candidates[k].restaurant : k \in 1..Len(candidates)}

SelectionSum(items, idx, field) ==
    SumSeq([k \in 1..Len(items) |-> IF k \in idx THEN items[k][field] ELSE 0])

UnderBudgetSelections(r, maxp) ==
    {idx \in SUBSET (1..Len(eligible_items(r))) :
        SelectionSum(eligible_items(r), idx, "price") < maxp}

\* the greatest protein of an under-budget selection of any restaurant
GreatestProtein(restaurants, maxp) ==
    LET totals == UNION {{SelectionSum(eligible_items(restaurants[i]), idx, "protein_grams") :
                             idx \in UnderBudgetSelections(restaurants[i], maxp)} :
                         i \in 1..Len(restaurants)} \cup {0}
    IN  CHOOSE t \in totals : \A u \in totals : u <= t

\* C16: find_best_attempt reports the under-budget selection of eligible
\* items with the greatest total protein of any under-budget selection of any
\* restaurant, with its restaurant, price, item count and
\* shortfall = min_protein - protein.
C16_BestAttemptIsGreatest ==
    (ba_called /\ GreatestProtein(ba_restaurants, ba_max) > 0) =>
        /\ ba_result # <<>>
        /\ ba_result[1].protein = GreatestProtein(ba_restaurants, ba_max)
        /\ ba_result[1].shortfall =
              IF ba_min - ba_result[1].protein > 0
              THEN <<ba_min - ba_result[1].protein>> ELSE <<>>
        /\ \E i \in 1..Len(ba_restaurants) :
              /\ ba_restaurants[i].name = ba_result[1].restaurant
              /\ \E idx \in UnderBudgetSelections(ba_restaurants[i], ba_max) :
                    /\ SelectionSum(eligible_items(ba_restaurants[i]), idx, "protein_grams")
                          = ba_result[1].protein
                    /\ SelectionSum(eligible_items(ba_restaurants[i]), idx, "price")
                          = ba_result[1].price
                    /\ Cardinality(idx) = ba_result[1].items

(***************************************************************************)
(* Claims about protein estimation                                         *)
(***************************************************************************)
\* the grams of the base patterns that match, the modifiers that match
MatchingBases(text) ==
    {PROTEIN_KEYWORDS[k].grams : k \in {j \in 1..Len(PROTEIN_KEYWORDS) :
                                        re_search(PROTEIN_KEYWORDS[j].alts, text)}}

MatchingModifiers(text) ==
    {j \in 1..Len(PROTEIN_MODIFIERS) : re_search(PROTEIN_MODIFIERS[j].alts, text)}

RECURSIVE BonusSum(_)
BonusSum(js) ==
    IF js = {} THEN 0
    ELSE LET j == CHOOSE x \in js : TRUE
         IN  PROTEIN_MODIFIERS[j].bonus + BonusSum(js \ {j})

\* C17: the estimate is absent exactly when no base pattern matches, and
\* otherwise is min(highest matching base + sum of the bonuses of all matching
\* modifiers, 60); it is at most 60, and the estimate of an item with one more
\* modifier word is not lower.
C17_EstimateFormula ==
    est_value # <<>> =>
        /\ (est_value[1] = None) <=> (MatchingBases(est_text) = {})
        /\ est_value[1] # None =>
              LET high == CHOOSE b \in MatchingBases(est_text) :
                              \A c \in MatchingBases(est_text) : c <= b
                  sum  == high + BonusSum(MatchingModifiers(est_text))
              IN  /\ est_value[1] = IF sum < 60 THEN sum ELSE 60
                  /\ est_value[1] <= 60
        /\ (est_before # <<>> /\ est_before[1] # None) =>
              (est_value[1] # None /\ est_value[1] >= est_before[1])
        /\ est_value[1] # TypeError

(***************************************************************************)
(* Claims about process_extracted_item                                     *)
(***************************************************************************)
\* the estimator produced a value for the item's text
EstimatorGaveValue(item) ==
    estimate_protein_from_name(item.item_name) \notin {None, TypeError}

\* item k was handed to process_extracted_item and the call returned
Processed(k) ==
    \/ it_pc \in {"processed", "carts"}
    \/ it_pc = "raised" /\ \E j \in (k + 1)..Len(it_items) :
                               process_extracted_item(it_raw[j]) = <<>>
                               /\ \A i \in 1..(j - 1) : process_extracted_item(it_raw[i]) # <<>>

RECURSIVE NumberOf(_)
NumberOf(digits) ==
    IF digits = <<>> THEN 0
    ELSE DigitValue[digits[Len(digits)]] + 10 * NumberOf(SubSeq(digits, 1, Len(digits) - 1))

RECURSIVE PowerOfTen(_)
PowerOfTen(n) == IF n = 0 THEN 1 ELSE 10 * PowerOfTen(n - 1)

\* the positions of the decimal points of a text: its dots, or its commas when
\* it has no dot
DecimalPoints(text) ==
    {i \in 1..Len(text) : text[i] = "." \/ (text[i] = "," /\ ~HasChar(text, "."))}

DigitsOf(text) == SelectSeq(text, LAMBDA c : c \in Digits)

\* the number a text stands for: its digits, with as many decimals as there
\* are digits after its one decimal point; <<>> when it has no digit or more
\* than one decimal point
PriceOf(text) ==
    IF DigitsOf(text) = <<>> \/ Cardinality(DecimalPoints(text)) > 1 THEN <<>>
    ELSE LET after == IF DecimalPoints(text) = {} THEN <<>>
                      ELSE SubSeq(text, 1 + CHOOSE i \in DecimalPoints(text) : TRUE, Len(text))
         IN  <<[num |-> NumberOf(DigitsOf(text)),
                den |-> PowerOfTen(Len(DigitsOf(after)))]>>

C20_ScoreStrictlyOrdered ==
    sc_scores # <<>> =>
        LET a == sc_carts[1]
            b == sc_carts[2]
        IN  /\ (/\ a.total_protein_grams > b.total_protein_grams
                /\ a.total_price = b.total_price
                /\ a.includes_estimates = b.includes_estimates)
               => sc_scores[1] > sc_scores[2]
            /\ (/\ a.total_price < b.total_price
                /\ a.total_protein_grams = b.total_protein_grams
                /\ a.includes_estimates = b.includes_estimates)
               => sc_scores[1] > sc_scores[2]
            /\ (/\ a.includes_estimates /\ ~b.includes_estimates
                /\ a.total_protein_grams = b.total_protein_grams
                /\ a.total_price = b.total_price)
               => sc_scores[1] < sc_scores[2]

(***************************************************************************)
(* Claims about placeholder resolution                                     *)
(***************************************************************************)
\* the text with every token whose key the map holds replaced by the map's
\* value and every other piece kept
RECURSIVE Resolved(_, _)
Resolved(text, user_data) ==
    IF text = <<>> THEN <<>>
    ELSE (IF \E key \in DOMAIN user_data : Placeholder[key] = Head(text)
          THEN user_data[CHOOSE key \in DOMAIN user_data : Placeholder[key] = Head(text)]
          ELSE <<Head(text)>>) \o Resolved(Tail(text), user_data)

ResolvedOptional(text, user_data) ==
    IF text = <<>> THEN <<>> ELSE <<Resolved(text[1], user_data)>>

\* the fields of the step are resolved in the step handed on
FieldsResolved(names) ==
    /\ \A f \in names :
          ip_out[1][f] = ResolvedOptional(ip_step[f], ip_user_data)
    /\ ip_step.fields # <<>> /\ DOMAIN ip_step.fields[1] # {} =>
          /\ ip_out[1].fields # <<>>
          /\ DOMAIN ip_out[1].fields[1] = DOMAIN ip_step.fields[1]
          /\ \A k \in DOMAIN ip_step.fields[1] :
                ip_out[1].fields[1][k] = Resolved(ip_step.fields[1][k], ip_user_data)

\* every token of the step's texts
TokensOfStep ==
    UNION {Range(ip_step[f][1]) : f \in {g \in StepTextFields : ip_step[g] # <<>>}}
    \cup (IF ip_step.fields = <<>> THEN {}
          ELSE UNION {Range(ip_step.fields[1][k]) : k \in DOMAIN ip_step.fields[1]})

\* C21 as stated: in every string field and every field-map value each token
\* whose key is in user_data is replaced by its value and each other token is
\* left as written, and no token is replaced by an empty string
C21_ResolvedEverywhereNeverEmpty ==
    ip_out # <<>> =>
        /\ FieldsResolved(StepTextFields)
        /\ \A key \in DOMAIN ip_user_data :
              Placeholder[key] \in TokensOfStep => ip_user_data[key] # <<>>

\* C21 amended: in selector, url, value, file, attribute, scroll_text and every
\* field-map value each token whose key is in user_data is replaced by its
\* value (which may be the empty string) and each token whose key is absent is
\* left exactly as written; label, source and filter_pattern are handed on
\* as they were given
C21_ResolvedInInterpolatedFields ==
    ip_out # <<>> =>
        /\ FieldsResolved({"selector", "url", "value", "file", "attribute", "scroll_text"})
        /\ \A f \in {"label", "source", "filter_pattern"} : ip_out[1][f] = ip_step[f]

\* a value text with one token whose key is present and one whose key is absent
C21_Witness ==
    /\ ip_out # <<>>
    /\ ip_step.value = <<<<"{{user.name}}", "{{user.email}}">>>>
    /\ DOMAIN ip_user_data = {"name"}
    /\ ip_out[1].value = <<<<"J", "{{user.email}}">>>>

(***************************************************************************)
(* Claims about the workflow context                                       *)
(***************************************************************************)
\* C22: in the first run of an executor, a step whose handler returned
\* extracted data leaves it in the context under its label (its selector if
\* it has no label), and no step changes or removes an entry that an earlier
\* step wrote
C22_StoredAndNeverOverwritten ==
    [][cx_pc = "run" /\ cx_run = 1 /\ cx_i' = cx_i + 1 =>
          /\ cx_last'.data.kind # "None" /\ (cx_last'.label # "" \/ cx_last'.selector # "") =>
                LET key == IF cx_last'.label # "" THEN cx_last'.label ELSE cx_last'.selector
                IN  key \in DOMAIN cx_context' /\ cx_context'[key] = cx_last'.data
          /\ \A k \in DOMAIN cx_context :
                k \in DOMAIN cx_context' /\ cx_context'[k] = cx_context[k]]_cxVars

\* C23: when execute_workflow is entered the context holds nothing, whatever
\* earlier runs of the same executor stored
C23_RunStartsWithEmptyContext ==
    cx_pc = "run" /\ cx_i = 0 => DOMAIN cx_context = {}

\* C27: a loop step navigates to the first min(cap, length) URLs of the list
\* stored under its source label, in stored order, one per-item result is kept
\* for each of them, the result of a URL whose navigation failed says so, and
\* without a URL list under the label (a list, or for loop_urls the dict of
\* extract_links) the step fails and navigates nowhere
C27_LoopVisitsAndRecords ==
    cx_last.action \in {"loop_urls", "loop_jobs"} =>
        IF cx_last.source.kind = "list"
           \/ (cx_last.action = "loop_urls" /\ cx_last.source.kind = "dict")
        THEN /\ cx_last.visited = Take(cx_last.source.urls, cx_last.cap)
             /\ Len(cx_last.recorded) = Len(cx_last.visited)
             /\ \A i \in 1..Len(cx_last.visited) :
                   /\ cx_last.recorded[i].url = cx_last.visited[i]
                   /\ cx_last.nav[i] # "ok" =>
                         cx_last.recorded[i].success # "True" /\ cx_last.recorded[i].error
        ELSE cx_last.status = "failed" /\ cx_last.visited = <<>>

(***************************************************************************)
(* Claims about try_selectors                                              *)
(***************************************************************************)
\* C26: the selectors attempted are a prefix of the list, in list order; on
\* success the selector reported is the first whose action succeeded and it
\* is the last one attempted; failure is reported only when every selector was
\* attempted and none succeeded, with the error of the last attempt when that
\* attempt gave one
C26_FirstSuccessInListOrder ==
    ts_return # <<>> =>
        LET r == ts_return[1]
            n == Len(r.attempted)
        IN  /\ n <= Len(ts_selectors)
            /\ r.attempted = SubSeq(ts_selectors, 1, n)
            /\ \A i \in 1..(n - 1) : ts_outcomes[i].kind # "ok"
            /\ r.success =>
                  /\ n >= 1
                  /\ ts_outcomes[n].kind = "ok"
                  /\ r.selector_used = <<ts_selectors[n]>>
            /\ ~r.success =>
                  /\ n = Len(ts_selectors)
                  /\ \A i \in 1..n : ts_outcomes[i].kind # "ok"
                  /\ r.selector_used = <<>>
                  /\ n >= 1 /\ ts_outcomes[n].error # "" => r.error = ts_outcomes[n].error

\* the second of three selectors succeeded after a failure, the third would
\* have succeeded too and was not attempted
C26_Witness ==
    /\ ts_return # <<>>
    /\ Len(ts_selectors) = 3
    /\ ts_outcomes[1].kind = "fail"
    /\ ts_outcomes[2].kind = "ok"
    /\ ts_outcomes[3].kind = "ok"
    /\ ts_return[1].success
    /\ ts_return[1].selector_used = <<ts_selectors[2]>>
    /\ Len(ts_return[1].attempted) = 2

(***************************************************************************)
(* Claims about the fill_form step                                         *)
(***************************************************************************)
\* a value that is empty or holds a placeholder the pattern matches
EmptyOrUnresolved(value) ==
    value = <<>> \/ \E i \in 1..Len(value) : PatternMatches(value[i])

\* C24: after a fill_form step the step result holds exactly one sub-result
\* per field, and every field whose value is empty or still holds a
\* placeholder was not attempted and has a failed sub-result with the
\* empty-or-placeholder reason
C24_SkippedFieldsRecorded ==
    ff_last.called /\ ff_step.fields # <<>> =>
        /\ ff_last.fields_filled # <<>>
        /\ Len(ff_last.fields_filled[1]) = Len(ff_step.fields)
        /\ \A i \in 1..Len(ff_step.fields) :
              /\ ff_last.fields_filled[1][i].field_name = FormFields[i]
              /\ EmptyOrUnresolved(ff_step.fields[i]) =>
                    /\ i \notin ff_last.attempted
                    /\ ~ff_last.fields_filled[1][i].success
                    /\ ff_last.fields_filled[1][i].error
                          = "Empty value or uninterpolated placeholder"

\* C25: the step result of a fill_form step has status success when every
\* field was filled, partial when some were, failed when none was
C25_FillStatus ==
    ff_last.called /\ ff_step.fields # <<>> =>
        LET filled == Cardinality({i \in 1..Len(ff_step.fields) : ff_last.sub[i].success})
        IN  ff_last.status = IF filled = Len(ff_step.fields) THEN "success"
                             ELSE IF filled > 0 THEN "partial" ELSE "failed"

(***************************************************************************)
(* Claims about page state classification                                  *)
(***************************************************************************)
\* the label of the highest-priority condition on the page
PageLabel(present) ==
    IF "bot_challenge" \in present THEN "bot_challenge_detected"
    ELSE IF "geo_selector" \in present THEN "geo_selector_detected"
    ELSE IF "consent_wall" \in present THEN "consent_blocking"
    ELSE IF "age_gate" \in present THEN "age_gate_blocking"
    ELSE IF present \cap {"address_reveal_button", "address_input"} = {}
    THEN "navigation_stalled"
    ELSE "healthy"

\* C28: the classifier returns the label of the highest-priority condition
\* present, in the order bot challenge, geo selector, consent wall, age gate,
\* stalled page, and healthy only when none is present and an address
\* element is found
C28_HighestPriorityLabel ==
    pg_state # "" => pg_state = PageLabel(pg_present)

\* C29: when the page was classified as not healthy, the output of the run
\* carries that state as its failure_reason, not a generic reason
C29_TypedFailureReason ==
    pg_output # <<>> =>
        /\ pg_output[1].failure_reason = pg_state
        /\ pg_output[1].failure_reason \notin {"unknown_error", "uber_eats_unavailable"}

(***************************************************************************)
(* Claims about the attempt count of a navigation                          *)
(***************************************************************************)
\* C30: when navigate has returned a failure, the attempts value of its
\* result is the number of page loads it made, and so is the nav_attempts
\* that _setup_location records from the result its client hands back
C30_AttemptsCounted ==
    nav_return.kind = "returned" /\ ~nav_return.success =>
        /\ nav_return.attempts = Len(nav_loads)
        /\ DebugNavAttempts("CursorMCPClient", nav_return) = Len(nav_loads)

(***************************************************************************)
(* Claims about the screenshot operation                                   *)
(***************************************************************************)
PrimaryTimedOut ==
    /\ Len(ss_shots) >= 1
    /\ ~ss_shots[1].clip
    /\ ss_shots[1].outcome = "TimeoutError"

\* C31: when the primary capture exceeded its budget, the clipped fallback
\* capture was made exactly once; the call returned (it did not raise), with
\* success and the fallback's image when the fallback gave one, and with a
\* failure exactly when the fallback failed too
C31_FallbackOnceAfterTimeout ==
    PrimaryTimedOut =>
        /\ Len(ss_shots) = 2
        /\ ss_shots[2].clip
        /\ ss_return.kind = "returned"
        /\ ss_return.success = (ss_shots[2].outcome = "bytes")
        /\ ss_return.success =>
              ss_return.screenshot_base64 = b64encode(<<"jpeg", 60, TRUE>>)

C31_Witness ==
    /\ PrimaryTimedOut
    /\ ss_timeout = 5000
    /\ ss_shots[2].outcome = "bytes"
    /\ ss_return.success

(***************************************************************************)
(* Claims about the outbound IP check                                      *)
(***************************************************************************)
IpChecksMade == Cardinality({i \in 1..Len(oi_navs) : oi_navs[i] = IpifyUrl})

\* C32: once a run has left step 0 the IP check has been made exactly once,
\* it is the first navigation of the run (so it precedes every navigation to
\* the target site), its result is in the diagnostics, and whatever the
\* result was the run went on to the navigation to the target site: no run
\* has returned without that navigation
C32_IpCheckOnceFirstAndNeverFatal ==
    /\ IpChecksMade <= 1
    /\ oi_pc \notin {"idle", "step0"} =>
          /\ IpChecksMade = 1
          /\ oi_navs[1] = IpifyUrl
          /\ oi_debug.outbound_ip = oi_check[1].ip
          /\ oi_debug.ip_is_datacenter =
                dict_get(oi_check[1], "is_likely_datacenter", TRUE)
    /\ oi_pc = "returned" => Len(oi_navs) >= 2 /\ oi_navs[2] = TargetUrl

C32_Witness ==
    /\ oi_pc = "returned"
    /\ oi_check[1].verification_success
    /\ oi_check[1].is_likely_datacenter
    /\ oi_debug.ip_is_datacenter = TRUE
    /\ Len(oi_navs) = 2 + MaxScans
    /\ oi_output[1].failure_reason = NoReason

(***************************************************************************)
(* Claims about the size and the totals of a cart                          *)
(***************************************************************************)
\* C33: every cart find_valid_carts returned has between 1 and 5 items, and
\* its total price and total protein are the sums of the prices and of the
\* protein values of its items
C33_CartSizeAndTotals ==
    cartPhase = "done" =>
        \A i \in 1..Len(valid_carts) :
            LET cart == valid_carts[i]
                n == Len(cart.cart_items)
            IN  /\ 1 <= n /\ n <= 5
                /\ cart.total_price =
                      SumSeq([k \in 1..n |-> cart.cart_items[k].price])
                /\ cart.total_protein_grams =
                      SumSeq([k \in 1..n |-> cart.cart_items[k].protein_grams])

\* a menu of more than 5 eligible items gave a cart of exactly 5
C33_Witness ==
    /\ cartPhase = "done"
    /\ Len(eligible_items(restaurant)) > 5
    /\ \E i \in 1..Len(valid_carts) :
          /\ Len(valid_carts[i].cart_items) = 5
          /\ valid_carts[i].total_protein_grams = 5
          /\ valid_carts[i].total_price = 5

(***************************************************************************)
(* Claims about the status of a recorded step                              *)
(***************************************************************************)
\* C34: a step whose handler returned a successful result is recorded with
\* status success, and a step recorded as failed is one whose handler
\* returned a failure result or raised
C34_StatusFollowsHandler ==
    sr_calls > 0 =>
        /\ sr_handler = "success" => sr_result.status = "success"
        /\ sr_result.status = "failed" => sr_handler \in {"failure", "raise"}

(***************************************************************************)
(* Claims about the selector probe                                         *)
(***************************************************************************)
\* C35: the executor's probe of a selector group answers true exactly when
\* the runtime reports that an element of the group exists; so a page with
\* an address input and no bot challenge, geo selector or age gate is
\* classified healthy and setup does not return a failure for it
C35_ProbeReportsExistence ==
    pg_state # "" =>
        /\ \A g \in ProbedGroups :
              _probe_selector(ClientResult(pg_client, probe_selector(g \in pg_present)))
                  = (g \in pg_present)
        /\ ("address_input" \in pg_present
            /\ pg_present \cap {"bot_challenge", "geo_selector", "age_gate"} = {})
              => pg_state = "healthy" /\ pg_output = <<>>

(***************************************************************************)
(* Claims about the detect_block step                                      *)
(***************************************************************************)
\* C36: a detect_block step with abort_on_block that ran on a blocked page
\* is recorded as failed with the bot-block error, and it is the last step
\* of the run: no later step was executed
C36_BlockAbortsWorkflow ==
    \A i \in 1..Len(bk_results) :
        (bk_steps[i].action = "detect_block" /\ bk_steps[i].abort_on_block
         /\ bk_blocked[i]) =>
            /\ bk_results[i].status = "failed"
            /\ bk_results[i].error = BotBlockError
            /\ Len(bk_results) = i

(***************************************************************************)
(* Claims about the best attempt of a run without carts                    *)
(***************************************************************************)
\* C37: when a run has ended with the reason
\* no_carts_meet_protein_and_price_constraints and reports a best attempt,
\* the protein of that attempt is below min_protein and its shortfall is the
\* positive difference
C37_BestAttemptFallsShort ==
    (/\ fd_pc = "returned"
     /\ fd_output[1].failure_reason = "no_carts_meet_protein_and_price_constraints"
     /\ fd_debug.best_attempt # <<>>) =>
        /\ fd_debug.best_attempt[1].protein < fd_min
        /\ fd_debug.best_attempt[1].shortfall
              = <<fd_min - fd_debug.best_attempt[1].protein>>

(***************************************************************************)
(* Claims about deduplication across restaurants                           *)
(***************************************************************************)
\* C38: the candidates come from k restaurants with distinct URLs, and
\* rank_carts returns min(k, top_n) results, also when restaurants share a
\* name
C38_DistinctRestaurantsKept ==
    dd_pc = "ranked" =>
        LET k == Cardinality({dd_restaurants[n].url : n \in 1..Len(dd_restaurants)})
        IN  Len(dd_ranked) = IF k < top_n THEN k ELSE top_n

(***************************************************************************)
(* Claims about processing an item twice                                   *)
(***************************************************************************)
\* C39: process_extracted_item is idempotent: the items after a second pass
\* are the items the first pass returned, and an estimated item is still
\* marked estimated
C39_ProcessIsIdempotent ==
    it_pc = "again" =>
        /\ it_items = ProcessItems(<<>>, it_raw).items
        /\ \A i \in 1..Len(it_items) :
              it_raw[i].protein_grams = None /\ it_items[i].protein_grams # None
                  => it_items[i].protein_source = "estimated"

(***************************************************************************)
(* Claims about concurrent callers of ensure_browser                       *)
(***************************************************************************)
\* C40: a runtime launches at most one browser, and all callers of
\* ensure_browser get the same page
C40_AtMostOneBrowser ==
    /\ Cardinality(eb_started) <= 1
    /\ \A c, e \in Callers :
          eb_got[c] # None /\ eb_got[e] # None => eb_got[c] = eb_got[e]

====
